---- MODULE Spec2Model ----
(***************************************************************************)
(* VortexL2: DNS best-server selection (dns_manager.py) and the relay      *)
(* port-forward driver (socat_manager.py over EasyTierConfig).             *)
(*                                                                         *)
(* Text is modelled by TLA+ strings, read as sequences of characters.      *)
(* Times are integers in hundredths of a millisecond; a value rounded to   *)
(* one decimal is a multiple of 10.                                        *)
(***************************************************************************)
EXTENDS Integers, Sequences, FiniteSets, TLC

VARIABLES
    \* normalize_dns_list called on its own
    raw,            \* the argument `raw`: a list of <<name, ip>>
    norm_out,       \* the returned list
    norm_pc,        \* "off" | "call" | "done"
    \* nslookup_latency_ms called on its own, one loop iteration per step
    p_acc,          \* the locals [total, ok], and whether an exception escaped
    p_log,          \* what each attempt made so far did
    p_pc,           \* "off" | "loop" | "returned" | "raised"
    p_ret,          \* the returned value
    \* scan_and_apply_best_dns, with apply_dns and save_dns_config
    s_pc,           \* where the scan is: "idle", "scoring", "select", the
                    \* places of apply_dns ("a_..."), "applied", "raised"
    scans,          \* scans started so far
    dns_list,       \* local: the normalized catalog
    idx,            \* local: position of the loop over dns_list
    results,        \* local: the scored candidates
    probes,         \* every nslookup_latency_ms call of this scan and its value
    best,           \* local: the selected candidate, or None
    a_log,          \* what apply_dns checked, ran and wrote in this scan
    a_ret,          \* what apply_dns returned: [success, via]
    s_ret,          \* what the last scan returned: [success, reason, best]
    dns_config,     \* the file DNS_CONFIG_FILE
    dns_writes,     \* times DNS_CONFIG_FILE was written
    at_start,       \* dns_config and dns_writes as the current scan started
    commits,        \* times apply_dns returned success, and the last address
    \* SocatManager with the EasyTierConfig of one tunnel
    fwd_pc,         \* "off" | "ready"
    forwarded_ports,    \* the tunnel's list _config["forwarded_ports"]
    remote_forward_ip,  \* the tunnel's _config["remote_forward_ip"]
    auto_save,      \* the tunnel's _auto_save
    tunnel_file,    \* the list in the tunnel's YAML file, None with no file
    socat_installed,    \* whether `which socat` finds socat
    netstat,        \* whether the host has netstat
    listener,       \* per port, who listens: "none" | "socat" | "other"
    f_op,           \* the last call: [name, port, has_config]
    f_pre,          \* forwarded_ports as the last call started
    f_ret,          \* what the last call returned: [success, msg]
    f_created,      \* ports create_forward added and nothing removed since
    f_cmds,         \* the commands the last call ran on the host, in order
    \* SocatManager.start_all_forwards over the tunnels of the host
    b_pc,           \* "off" | "call" | "returned"
    tunnels,        \* what get_all_tunnels returns: a list of tunnels
    b_log,          \* each start_forward call made: [port, success, msg]
    b_ret,          \* what start_all_forwards returned: [success, count, errors]
    \* the forwards menus of main.py
    m_pc,           \* "off" | "list" | "shown" | "menu"
    forward_mode,   \* the persisted forward mode: "none" | "haproxy" | "socat"
    haproxy,        \* whether the haproxy service runs
    daemon,         \* whether the vortexl2-forward-daemon service runs
    m_menu,         \* the menu of the last pass: "l2tp" | "easytier"
    m_choice,       \* what the operator chose in the last pass
    m_mode,         \* the mode the last pass read as it started
    m_list,         \* the list of forwards the last pass showed
    m_cmds,         \* what the last pass ran and wrote, in order
    \* the deletion of a tunnel from the menus of main.py
    d_pc,           \* "off" | "menu" | "kept" | "deleted"
    service,        \* whether the tunnel's service (its process) runs
    d_type,         \* the handler that ran: "l2tp" | "easytier"
    d_pre,          \* the tunnel's forwarded_ports as the handler started
    d_log,          \* the steps the handler made, in order: [step, port]
    \* the command `apply` (cmd_apply, cmd_apply_easytier)
    ap_pc,          \* "off" | "call" | "returned"
    ap_mode,        \* get_tunnel_mode(): "l2tpv3" | "easytier"
    ap_tunnels,     \* what get_all_tunnels returns, each with what the host
                    \* does when the tunnel is set up
    ap_log,         \* each setup made: [tunnel, success]
    ap_ret,         \* the status returned
    \* one write of a configuration file, and the operator's interrupt
    w_pc,           \* "off" | "called" | "opened" | "dumping" | "closed" |
                    \* "returned" | "interrupted"
    w_op,           \* the writer: "save_dns_config" | "set_check_interval" |
                    \* "save"
    w_file,         \* the file: None, or the lines it holds
    w_old,          \* the file as the writer was called
    w_new,          \* the lines yaml.dump is to write
    w_buf,          \* the lines yaml.dump has written to the open file
    \* the main menu loop (main_menu_l2tpv3, main_menu_easytier)
    mm_pc,          \* "off" | "start" | "menu" | "handler" | "panel" | "exited"
    mm_menu,        \* the loop entered: "l2tpv3" | "easytier"
    mm_choice,      \* the choice read last
    mm_outcome,     \* how the last handler ended
    mm_raised,      \* handlers that raised so far
    mm_exit,        \* why the process ended
    \* the creation of an EasyTier tunnel (handle_easytier_create_tunnel)
    c_pc,           \* "off" | "idle" | "configuring"
    c_files,        \* the names that have a document in TUNNELS_DIR
    c_name,         \* the name entered in the current or last creation
    c_config,       \* the config object of the creation: [name, peer_ip,
                    \* auto_save], None outside a creation
    c_result,       \* how the last creation ended
    c_failed,       \* the names whose creation was cancelled or failed
    \* the DNS auto-check: its cron file and the choices of handle_dns_menu
    i_pc,           \* "off" | "menu"
    cron,           \* /etc/cron.d/vortexl2-dns: [file, hours], hours 0 for a
                    \* file without the entry
    i_op            \* the last operation: [name, hours, success]

normVars == <<raw, norm_out, norm_pc>>
probeVars == <<p_acc, p_log, p_pc, p_ret>>
scanLocals == <<dns_list, idx, results, probes, best, a_log, a_ret, s_ret>>
scanVars == <<s_pc, scans, scanLocals, dns_config, dns_writes, at_start,
              commits>>
fwdHost == <<socat_installed, netstat, listener>>
fwdConfig == <<forwarded_ports, remote_forward_ip, auto_save, tunnel_file>>
fwdCalls == <<f_op, f_pre, f_ret, f_created, f_cmds>>
fwdVars == <<fwd_pc, fwdConfig, fwdHost, fwdCalls>>
bulkVars == <<b_pc, tunnels, b_log, b_ret>>
menuHost == <<forward_mode, haproxy, daemon>>
menuPass == <<m_menu, m_choice, m_mode, m_list, m_cmds>>
menuVars == <<m_pc, menuHost, menuPass>>
delVars == <<d_pc, service, d_type, d_pre, d_log>>
applyVars == <<ap_pc, ap_mode, ap_tunnels, ap_log, ap_ret>>
writeVars == <<w_pc, w_op, w_file, w_old, w_new, w_buf>>
mainVars == <<mm_pc, mm_menu, mm_choice, mm_outcome, mm_raised, mm_exit>>
createVars == <<c_pc, c_files, c_name, c_config, c_result, c_failed>>
intervalVars == <<i_pc, cron, i_op>>
shellVars == <<applyVars, writeVars, mainVars, createVars, intervalVars>>
opsVars == <<bulkVars, menuVars, delVars, shellVars>>
vars == <<normVars, probeVars, scanVars, fwdVars, opsVars>>

\* what the steps of one part of the model leave alone
notNorm == <<probeVars, scanVars, fwdVars, opsVars>>
notProbe == <<normVars, scanVars, fwdVars, opsVars>>
notScan == <<normVars, probeVars, fwdVars, opsVars>>
notFwd == <<normVars, probeVars, scanVars, opsVars>>
dnsVars == <<normVars, probeVars, scanVars>>
notApply == <<dnsVars, fwdVars, bulkVars, menuVars, delVars, writeVars,
    mainVars, createVars, intervalVars>>
notWrite == <<dnsVars, fwdVars, bulkVars, menuVars, delVars, applyVars,
    mainVars, createVars, intervalVars>>
notMain == <<dnsVars, fwdVars, bulkVars, menuVars, delVars,
    applyVars, writeVars, createVars, intervalVars>>
notCreate == <<dnsVars, fwdVars, bulkVars, menuVars, delVars,
    applyVars, writeVars, mainVars, intervalVars>>
notInterval == <<dnsVars, fwdVars, bulkVars, menuVars, delVars,
    applyVars, writeVars, mainVars, createVars>>

\* Python's None, and a value that is not None
None == <<>>
Some(x) == <<x>>

\* the locals of nslookup_latency_ms as the loop starts
Acc0 == [total |-> 0, ok |-> 0, raised |-> FALSE]

\* the parts of the model a specification leaves out
NormOff == raw = <<>> /\ norm_out = <<>> /\ norm_pc = "off"
ProbeOff == p_acc = Acc0 /\ p_log = <<>> /\ p_pc = "off" /\ p_ret = None

\* DNS_CONFIG_FILE: missing, unreadable as YAML, or a mapping document
\* (the empty mapping for an empty file)
NoFile == [state |-> "absent", doc |-> <<>>]
Corrupt == [state |-> "corrupt", doc |-> <<>>]
Doc(d) == [state |-> "doc", doc |-> d]

NoRet == [success |-> FALSE, via |-> "pending"]
NoScanRet == [success |-> FALSE, reason |-> "pending", best |-> None]
ScanLocals0 ==
    /\ dns_list = <<>> /\ idx = 1 /\ results = <<>> /\ probes = <<>>
    /\ best = None /\ a_log = <<>> /\ a_ret = NoRet /\ s_ret = NoScanRet
ScanOff ==
    /\ s_pc = "off" /\ scans = 0 /\ ScanLocals0
    /\ dns_config = NoFile /\ dns_writes = 0
    /\ at_start = [config |-> NoFile, writes |-> 0]
    /\ commits = [n |-> 0, last |-> None]

NoCall == [name |-> "none", port |-> 0, has_config |-> FALSE]
NoCallRet == [success |-> FALSE, msg |-> "pending"]
FwdOff ==
    /\ fwd_pc = "off" /\ forwarded_ports = <<>> /\ remote_forward_ip = None
    /\ auto_save = FALSE /\ tunnel_file = None
    /\ socat_installed = FALSE /\ netstat = FALSE /\ listener = <<>>
    /\ f_op = NoCall /\ f_pre = <<>> /\ f_ret = NoCallRet /\ f_created = {}
    /\ f_cmds = <<>>

NoBulkRet == [success |-> FALSE, count |-> 0, errors |-> <<>>]
BulkOff ==
    /\ b_pc = "off" /\ tunnels = <<>> /\ b_log = <<>> /\ b_ret = NoBulkRet
\* confirm is the answer to "Start port forwarding now?": "yes", "no", or
\* "not asked"
NoChoice == [choice |-> "none", new_mode |-> None, confirm |-> "not asked"]
NoPass ==
    /\ m_menu = "none" /\ m_choice = NoChoice /\ m_mode = "none"
    /\ m_list = <<>> /\ m_cmds = <<>>
MenuOff ==
    /\ m_pc = "off" /\ forward_mode = "none" /\ haproxy = FALSE
    /\ daemon = FALSE /\ NoPass
DelOff ==
    /\ d_pc = "off" /\ service = FALSE /\ d_type = "none"
    /\ d_pre = <<>> /\ d_log = <<>>
CmdApplyOff ==
    /\ ap_pc = "off" /\ ap_mode = "none" /\ ap_tunnels = <<>>
    /\ ap_log = <<>> /\ ap_ret = 0
WriteOff ==
    /\ w_pc = "off" /\ w_op = "none" /\ w_file = None /\ w_old = None
    /\ w_new = <<>> /\ w_buf = <<>>
MainOff ==
    /\ mm_pc = "off" /\ mm_menu = "none" /\ mm_choice = "none"
    /\ mm_outcome = "none" /\ mm_raised = 0 /\ mm_exit = "none"
CreateOff ==
    /\ c_pc = "off" /\ c_files = {} /\ c_name = "none" /\ c_config = None
    /\ c_result = "none" /\ c_failed = {}
IntervalOff ==
    /\ i_pc = "off" /\ cron = [file |-> FALSE, hours |-> 0]
    /\ i_op = [name |-> "none", hours |-> 0, success |-> FALSE]
ShellOff == CmdApplyOff /\ WriteOff /\ MainOff /\ CreateOff /\ IntervalOff
OpsOff == BulkOff /\ MenuOff /\ DelOff /\ ShellOff
DnsOff == NormOff /\ ProbeOff /\ ScanOff

(***************************************************************************)
(* Bounds                                                                  *)
(***************************************************************************)
\* longest catalog handed to normalize_dns_list
MaxRaw == 3
\* longest time one nslookup run takes, in hundredths of a millisecond
MaxElapsed == 12
\* entries of the catalog a scan reads
CatLen == 3
\* scans run one after the other
MaxScans == 2
\* ports a forward may be asked for: 1..MaxPort
MaxPort == 2

(***************************************************************************)
(* str.strip()                                                             *)
(***************************************************************************)
Whitespace == {" ", "\t", "\n"}

RECURSIVE LStrip(_)
LStrip(s) ==
    IF s = "" THEN ""
    ELSE IF Head(s) \in Whitespace THEN LStrip(Tail(s)) ELSE s

RECURSIVE RStrip(_)
RStrip(s) ==
    IF s = "" THEN ""
    ELSE IF SubSeq(s, Len(s), Len(s)) \in Whitespace
         THEN RStrip(SubSeq(s, 1, Len(s) - 1))
         ELSE s

Strip(s) == RStrip(LStrip(s))

(***************************************************************************)
(* normalize_dns_list                                                      *)
(***************************************************************************)
UNSPECIFIED == "0.0.0.0"

\* mutant: the test without `or not ip`
InvalidIp_UnspecifiedOnly(ip) == ip = UNSPECIFIED

\* the test `ip == "0.0.0.0" or not ip` on the stripped address
InvalidIp(ip) == ip = UNSPECIFIED \/ ip = ""

\* the loop over `raw`, with its locals `seen` and `out`
RECURSIVE NormalizeLoop(_, _, _)
NormalizeLoop(rest, seen, out) ==
    IF rest = <<>> THEN out
    ELSE LET name == Head(rest)[1]
             ip   == Strip(Head(rest)[2])
         IN  IF InvalidIp(ip) THEN NormalizeLoop(Tail(rest), seen, out)
             ELSE IF ip \in seen THEN NormalizeLoop(Tail(rest), seen, out)
             ELSE NormalizeLoop(Tail(rest), seen \cup {ip},
                                Append(out, <<Strip(name), ip>>))

normalize_dns_list(r) == NormalizeLoop(r, {}, <<>>)

(***************************************************************************)
(* nslookup_latency_ms                                                     *)
(***************************************************************************)
REPEAT == 2

\* What one `_run(["nslookup", domain, dns_ip], timeout=TIMEOUT)` does: it
\* returns exit status 0 after ms hundredths of a millisecond, returns a
\* non-zero status, runs into the timeout, or fails in another way.
Failures == {"nonzero", "timeout", "error"}
Ok(ms) == [kind |-> "ok", ms |-> ms]
Fail(k) == [kind |-> k, ms |-> 0]
IsSuccess(o) == o.kind = "ok"

\* the exceptions the two except clauses of the loop body catch
Caught(o) == o.kind = "timeout" \/ o.kind = "error"

\* mutant: `ok += 1` moved out of the test of the exit status
Attempt_CountsEveryRun(acc, o) ==
    IF IsSuccess(o)
    THEN [acc EXCEPT !.total = @ + o.ms, !.ok = @ + 1]
    ELSE IF o.kind = "nonzero" THEN [acc EXCEPT !.ok = @ + 1]
    ELSE IF Caught(o) THEN acc
    ELSE [acc EXCEPT !.raised = TRUE]

\* one iteration of `for _ in range(REPEAT)` on the locals total and ok
Attempt(acc, o) ==
    IF IsSuccess(o)
    THEN [acc EXCEPT !.total = @ + o.ms, !.ok = @ + 1]
    ELSE IF o.kind = "nonzero" \/ Caught(o) THEN acc
    ELSE [acc EXCEPT !.raised = TRUE]

\* round(n / d, 1) for a time of n / d hundredths of a millisecond. The
\* quotient is a binary float, so a quotient that lies half way between two
\* one-decimal values goes to either of them.
Round1(n, d) ==
    LET lo == 10 * (n \div (10 * d))
        hi == lo + 10
    IN  IF n - lo * d < hi * d - n THEN {lo}
        ELSE IF n - lo * d > hi * d - n THEN {hi}
        ELSE {lo, hi}

\* the values `return None` / `return round(total / ok, 1)` can give
ProbeReturn(acc) ==
    IF acc.ok = 0 THEN {None} ELSE {Some(r) : r \in Round1(acc.total, acc.ok)}

RECURSIVE AttemptLoop(_, _)
AttemptLoop(outs, acc) ==
    IF outs = <<>> \/ acc.raised THEN acc
    ELSE AttemptLoop(Tail(outs), Attempt(acc, Head(outs)))

\* nslookup_latency_ms when its REPEAT runs do `outs`: the values it can
\* return (none when an exception escapes it)
nslookup_latency_ms(outs) ==
    LET acc == AttemptLoop(outs, Acc0)
    IN  IF acc.raised THEN {} ELSE ProbeReturn(acc)

(***************************************************************************)
(* Specification SpecProbe: one call of nslookup_latency_ms, step by step  *)
(***************************************************************************)
Outcomes == {Ok(t) : t \in 0..MaxElapsed} \cup {Fail(k) : k \in Failures}

ProbeInit == /\ p_acc = Acc0
             /\ p_log = <<>>
             /\ p_pc = "loop"
             /\ p_ret = None
             /\ NormOff /\ ScanOff /\ FwdOff /\ OpsOff

\* one pass through the loop body
ProbeAttempt ==
    /\ p_pc = "loop"
    /\ Len(p_log) < REPEAT
    /\ \E o \in Outcomes :
         /\ p_acc' = Attempt(p_acc, o)
         /\ p_log' = Append(p_log, o)
         /\ p_pc' = IF Attempt(p_acc, o).raised THEN "raised" ELSE "loop"
    /\ UNCHANGED <<p_ret, notProbe>>

\* the statements after the loop
ProbeFinish ==
    /\ p_pc = "loop"
    /\ Len(p_log) = REPEAT
    /\ p_ret' \in ProbeReturn(p_acc)
    /\ p_pc' = "returned"
    /\ UNCHANGED <<p_acc, p_log, notProbe>>

ProbeNext == ProbeAttempt \/ ProbeFinish

SpecProbe == ProbeInit /\ [][ProbeNext]_vars

\* ---- C5 ----
OkRuns(log) == {i \in 1..Len(log) : log[i].kind = "ok"}
RECURSIVE SumOver(_, _)
SumOver(log, I) ==
    IF I = {} THEN 0
    ELSE LET i == CHOOSE i \in I : TRUE IN log[i].ms + SumOver(log, I \ {i})

\* the one-decimal values nearest to the mean of the successful runs
NearestTenths(log) ==
    {r \in {10 * k : k \in 0..(MaxElapsed \div 10 + 1)} :
        \A q \in {10 * k : k \in 0..(MaxElapsed \div 10 + 1)} :
            LET n == SumOver(log, OkRuns(log))
                d == Cardinality(OkRuns(log))
                Abs(x) == IF x < 0 THEN -x ELSE x
            IN  Abs(n - r * d) <= Abs(n - q * d)}

\* C5: nslookup_latency_ms makes at most REPEAT attempts, lets no exception
\* of an attempt escape, returns None exactly when no attempt succeeded,
\* and otherwise returns the mean over the successful attempts alone,
\* rounded to one decimal.
C5_ProbeContract ==
    /\ Len(p_log) <= REPEAT
    /\ p_pc # "raised"
    /\ p_pc = "returned" =>
          /\ (p_ret = None) <=> (OkRuns(p_log) = {})
          /\ p_ret # None => p_ret[1] \in NearestTenths(p_log)

\* one run that timed out and one that took 0.07 ms: the mean is 0.07 ms,
\* returned as 0.1 ms
C5_Witness ==
    /\ p_pc = "returned"
    /\ p_log = <<Fail("timeout"), Ok(7)>>
    /\ p_ret = Some(10)

(***************************************************************************)
(* Specification SpecNorm: normalize_dns_list on every bounded catalog     *)
(***************************************************************************)
RawNames == {"A", " B"}
RawIps == {"", " ", "0.0.0.0", " 0.0.0.0", "1.1.1.1", "1.1.1.1 ", "\t8.8.8.8"}
RawEntries == RawNames \X RawIps

SeqsUpTo(S, n) == UNION {[1..k -> S] : k \in 0..n}

NormInit == /\ raw \in SeqsUpTo(RawEntries, MaxRaw)
            /\ norm_out = <<>>
            /\ norm_pc = "call"
            /\ ProbeOff /\ ScanOff /\ FwdOff /\ OpsOff

Normalize == /\ norm_pc = "call"
             /\ norm_out' = normalize_dns_list(raw)
             /\ norm_pc' = "done"
             /\ UNCHANGED <<raw, notNorm>>

NormNext == Normalize

SpecNorm == NormInit /\ [][NormNext]_vars

\* ---- C4 ----
Ip(i) == Strip(raw[i][2])
FirstOcc == {i \in 1..Len(raw) :
               /\ ~(Ip(i) = "" \/ Ip(i) = "0.0.0.0")
               /\ \A j \in 1..(i - 1) : Ip(j) # Ip(i)}
\* the k-th smallest index of FirstOcc
KthFirst(k) == CHOOSE i \in FirstOcc : Cardinality({j \in FirstOcc : j <= i}) = k

\* C4: normalize_dns_list returns, in input order, exactly the first
\* occurrence of every stripped address that is neither empty nor 0.0.0.0,
\* with that occurrence's (stripped) name; so the output addresses are
\* pairwise distinct and none is empty or the unspecified address.
C4_NormalizeExact ==
    norm_pc = "done" =>
        /\ Len(norm_out) = Cardinality(FirstOcc)
        /\ \A k \in 1..Len(norm_out) :
              norm_out[k] = <<Strip(raw[KthFirst(k)][1]), Ip(KthFirst(k))>>
        /\ \A k \in 1..Len(norm_out) :
              /\ norm_out[k][2] # "0.0.0.0"
              /\ norm_out[k][2] # ""
              /\ \A m \in 1..Len(norm_out) :
                    m # k => norm_out[m][2] # norm_out[k][2]

\* a catalog with a repeated address under two names, an unspecified and a
\* padded entry, normalized to the single first occurrence
C4_Witness ==
    /\ norm_pc = "done"
    /\ raw = <<<<" B", "1.1.1.1 ">>, <<"A", " 0.0.0.0">>, <<"A", "1.1.1.1">>>>
    /\ norm_out = <<<<"B", "1.1.1.1">>>>
(***************************************************************************)
(* score_dns and the selection of the best candidate                       *)
(***************************************************************************)
TEST_DOMAIN_1 == "chatgpt.com"
TEST_DOMAIN_2 == "one.one.one.one"

\* the catalog: entries of RAW_DNS_LIST in their order there, two of them
\* repeating an address under another name
RAW_DNS_LIST ==
    << <<"Gaming DNS 6", "9.9.9.9">>, <<"Gaming DNS 15", "1.1.1.1">>,
       <<"Cloudflare", "1.1.1.1">>, <<"Google", "8.8.8.8">>,
       <<"Quad9", "9.9.9.9">> >>

Catalog ==
    SubSeq(RAW_DNS_LIST, 1,
           IF CatLen < Len(RAW_DNS_LIST) THEN CatLen ELSE Len(RAW_DNS_LIST))

\* one call nslookup_latency_ms(domain, ip) and the value it returned
Probe(domain, ip, lat) == [domain |-> domain, ip |-> ip, lat |-> lat]

\* mutant: the tests written `not lat1` and `not lat2`
ProbeFailed_Falsy(lat) == lat = None \/ lat = Some(0)

\* the tests `lat1 is None` and `lat2 is None`
ProbeFailed(lat) == lat = None

\* mutant: both domains probed before either value is tested
score_dns_BothProbes(ip, o1, o2) ==
    UNION {
        LET made == <<Probe(TEST_DOMAIN_1, ip, lat1),
                      Probe(TEST_DOMAIN_2, ip, lat2)>>
        IN  IF ProbeFailed(lat1) \/ ProbeFailed(lat2)
            THEN {[ret |-> None, probed |-> made]}
            ELSE {[ret |-> Some([score |-> sc, lat1 |-> lat1[1],
                                 lat2 |-> lat2[1]]),
                   probed |-> made] : sc \in Round1(lat1[1] + lat2[1], 2)}
        : lat1 \in nslookup_latency_ms(o1), lat2 \in nslookup_latency_ms(o2)}

\* score_dns(ip) when the runs for the first domain do o1 and those for the
\* second would do o2: what it can return, with the probes it made
score_dns(ip, o1, o2) ==
    UNION {
        IF ProbeFailed(lat1)
        THEN {[ret |-> None, probed |-> <<Probe(TEST_DOMAIN_1, ip, lat1)>>]}
        ELSE UNION {
            LET made == <<Probe(TEST_DOMAIN_1, ip, lat1),
                          Probe(TEST_DOMAIN_2, ip, lat2)>>
            IN  IF ProbeFailed(lat2)
                THEN {[ret |-> None, probed |-> made]}
                ELSE {[ret |-> Some([score |-> sc, lat1 |-> lat1[1],
                                     lat2 |-> lat2[1]]),
                       probed |-> made] : sc \in Round1(lat1[1] + lat2[1], 2)}
            : lat2 \in nslookup_latency_ms(o2)}
        : lat1 \in nslookup_latency_ms(o1)}

\* mutant: an element goes before the elements of equal score
RECURSIVE InsertByScore_TiesFirst(_, _)
InsertByScore_TiesFirst(sorted, x) ==
    IF sorted = <<>> THEN <<x>>
    ELSE IF x.score <= Head(sorted).score THEN <<x>> \o sorted
    ELSE <<Head(sorted)>> \o InsertByScore_TiesFirst(Tail(sorted), x)

\* sorted(results, key=lambda x: x[0]): a stable sort, an element goes
\* behind the elements whose score is not greater
RECURSIVE InsertByScore(_, _)
InsertByScore(sorted, x) ==
    IF sorted = <<>> THEN <<x>>
    ELSE IF x.score < Head(sorted).score THEN <<x>> \o sorted
    ELSE <<Head(sorted)>> \o InsertByScore(Tail(sorted), x)

RECURSIVE SortLoop(_, _)
SortLoop(rest, sorted) ==
    IF rest = <<>> THEN sorted
    ELSE SortLoop(Tail(rest), InsertByScore(sorted, Head(rest)))

SortedByScore(rs) == SortLoop(rs, <<>>)

\* mutant: the test left out
NoResults_Never(rs) == FALSE

\* the test `if not results`
NoResults(rs) == rs = <<>>

(***************************************************************************)
(* get_dns_config and save_dns_config                                      *)
(***************************************************************************)
DEFAULT_CHECK_INTERVAL == 4

DefaultConfig ==
    [check_interval_hours |-> DEFAULT_CHECK_INTERVAL, current_dns |-> None,
     current_dns_name |-> None, last_check |-> None]

\* config[key] = value
Put(config, key, value) ==
    [k \in DOMAIN config \cup {key} |-> IF k = key THEN value ELSE config[k]]

get_dns_config(file) ==
    IF file.state = "doc" THEN file.doc ELSE DefaultConfig

\* the document save_dns_config(dns_ip, dns_name) writes at time `now`
save_dns_config(file, dns_ip, dns_name, now) ==
    Doc(Put(Put(Put(get_dns_config(file),
                    "current_dns", Some(dns_ip)),
                "current_dns_name", Some(dns_name)),
            "last_check", Some(now)))

(***************************************************************************)
(* Specification Spec: scans, each applying and saving the best server     *)
(***************************************************************************)
\* what the runs of one probe can do in a scan
ScanOutcomes == {Ok(0), Ok(10)} \cup {Fail(k) : k \in Failures}
AttemptSeqs == [1..REPEAT -> ScanOutcomes]

\* all that score_dns(ip) can return and probe, over what the runs can do
ScoreOutcomes ==
    [ip \in {RAW_DNS_LIST[i][2] : i \in 1..Len(RAW_DNS_LIST)} |->
        UNION {score_dns(ip, o1, o2) : o1 \in AttemptSeqs, o2 \in AttemptSeqs}]

\* a document left by an earlier run
EarlierDoc ==
    [check_interval_hours |-> 6, current_dns |-> Some("8.8.8.8"),
     current_dns_name |-> Some("Google"), last_check |-> Some(0)]

Init ==
    /\ s_pc = "idle" /\ scans = 0 /\ ScanLocals0
    /\ dns_config \in {NoFile, Corrupt, Doc(<<>>), Doc(EarlierDoc)}
    /\ dns_writes = 0
    /\ at_start = [config |-> dns_config, writes |-> 0]
    /\ commits = [n |-> 0, last |-> None]
    /\ NormOff /\ ProbeOff /\ FwdOff /\ OpsOff

Event(ev, what, val) == [ev |-> ev, what |-> what, val |-> val]

\* scan_and_apply_best_dns up to the loop
ScanStart ==
    /\ s_pc = "idle"
    /\ scans < MaxScans
    /\ scans' = scans + 1
    /\ at_start' = [config |-> dns_config, writes |-> dns_writes]
    /\ idx' = 1 /\ results' = <<>> /\ probes' = <<>> /\ best' = None
    /\ a_log' = <<>> /\ a_ret' = NoRet
    /\ \E has_nslookup \in BOOLEAN :
         IF ~has_nslookup
         THEN /\ s_ret' = [success |-> FALSE, reason |-> "nslookup not found",
                           best |-> None]
              /\ dns_list' = <<>>
              /\ s_pc' = "idle"
         ELSE /\ s_ret' = NoScanRet
              /\ dns_list' = normalize_dns_list(Catalog)
              /\ s_pc' = "scoring"
    /\ UNCHANGED <<notScan, dns_config, dns_writes, commits>>

\* one pass through the loop over dns_list
ScoreNext ==
    /\ s_pc = "scoring"
    /\ idx <= Len(dns_list)
    /\ LET name == dns_list[idx][1]
           ip   == dns_list[idx][2]
       IN  \E s \in ScoreOutcomes[ip] :
               /\ probes' = probes \o s.probed
               /\ results' =
                    IF s.ret = None THEN results
                    ELSE Append(results,
                                [score |-> s.ret[1].score, name |-> name,
                                 ip |-> ip, lat1 |-> s.ret[1].lat1,
                                 lat2 |-> s.ret[1].lat2])
    /\ idx' = idx + 1
    /\ UNCHANGED <<notScan, s_pc, scans, dns_list, best, a_log, a_ret, s_ret,
                   dns_config, dns_writes, at_start, commits>>

\* after the loop: no result, or the first of the sorted results
ScanSelect ==
    /\ s_pc = "scoring"
    /\ idx > Len(dns_list)
    /\ IF NoResults(results)
       THEN /\ s_ret' = [success |-> FALSE, reason |-> "no candidate",
                         best |-> None]
            /\ s_pc' = "idle"
            /\ UNCHANGED best
       ELSE IF results = <<>>
       THEN /\ s_pc' = "raised"      \* [][0] raises IndexError
            /\ UNCHANGED <<s_ret, best>>
       ELSE /\ best' = Some(SortedByScore(results)[1])
            /\ s_pc' = "a_resolved"
            /\ UNCHANGED s_ret
    /\ UNCHANGED <<notScan, scans, dns_list, idx, results, probes, a_log, a_ret,
                   dns_config, dns_writes, at_start, commits>>

(***************************************************************************)
(* apply_dns(best ip), one statement group per step.  A `_run` returns     *)
(* exit status 0 ("ok"), returns another status ("nonzero") or raises;     *)
(* has_cmd and systemd_resolved_active catch everything and answer.  What  *)
(* apply_dns does to the host is what a_log records: the commands it ran   *)
(* and the file it wrote, each with whether it went through.               *)
(***************************************************************************)
RunOutcomes == {"ok", "nonzero", "raise"}

\* `return success, msg` of apply_dns
ApplyReturn(success, via) ==
    /\ a_ret' = [success |-> success, via |-> via]
    /\ s_pc' = "applied"
    /\ commits' = IF success
                  THEN [n |-> commits.n + 1, last |-> Some(best[1].ip)]
                  ELSE commits

\* mutant: the test without `and systemd_resolved_active()`
ResolvedUsable_ToolOnly(has_resolvectl, active) == has_resolvectl

\* `if has_cmd("resolvectl") and systemd_resolved_active()`
ResolvedUsable(has_resolvectl, active) == has_resolvectl /\ active

ApplyCheckResolved ==
    /\ s_pc = "a_resolved"
    /\ \E has_resolvectl \in BOOLEAN, active \in BOOLEAN :
         /\ a_log' = a_log \o <<Event("has_cmd", "resolvectl", has_resolvectl)>>
                \o (IF has_resolvectl
                    THEN <<Event("is_active", "systemd-resolved", active)>>
                    ELSE <<>>)
         /\ s_pc' = IF ResolvedUsable(has_resolvectl, active)
                    THEN "a_rdns" ELSE "a_nmcli"
    /\ UNCHANGED <<notScan, scans, dns_list, idx, results, probes, best, a_ret, s_ret,
                   dns_config, dns_writes, at_start, commits>>

\* p1 = _run(["resolvectl", "dns", iface, dns_ip]) and the test of its status
ApplyResolvectlDns ==
    /\ s_pc = "a_rdns"
    /\ \E o \in RunOutcomes :
         /\ a_log' = Append(a_log, Event("run", "resolvectl dns", o = "ok"))
         /\ IF o = "ok"
            THEN /\ s_pc' = "a_rrest"
                 /\ UNCHANGED <<a_ret, commits>>
            ELSE ApplyReturn(FALSE, IF o = "nonzero"
                                    THEN "resolvectl dns failed"
                                    ELSE "exception")
    /\ UNCHANGED <<notScan, scans, dns_list, idx, results, probes, best, s_ret,
                   dns_config, dns_writes, at_start>>

\* resolvectl domain, resolvectl flush-caches (status not looked at), return
ApplyResolvectlRest ==
    /\ s_pc = "a_rrest"
    /\ \E raises \in BOOLEAN :
         /\ a_log' = Append(a_log, Event("run", "resolvectl domain, flush",
                                         ~raises))
         /\ IF raises THEN ApplyReturn(FALSE, "exception")
            ELSE ApplyReturn(TRUE, "systemd-resolved")
    /\ UNCHANGED <<notScan, scans, dns_list, idx, results, probes, best, s_ret,
                   dns_config, dns_writes, at_start>>

\* `if has_cmd("nmcli")`
ApplyCheckNmcli ==
    /\ s_pc = "a_nmcli"
    /\ \E has_nmcli \in BOOLEAN :
         /\ a_log' = Append(a_log, Event("has_cmd", "nmcli", has_nmcli))
         /\ s_pc' = IF has_nmcli THEN "a_nmshow" ELSE "a_file"
    /\ UNCHANGED <<notScan, scans, dns_list, idx, results, probes, best, a_ret, s_ret,
                   dns_config, dns_writes, at_start, commits>>

\* the listing of the active connection and `if line`
ApplyNmShow ==
    /\ s_pc = "a_nmshow"
    /\ \E o \in {"line", "empty", "raise"} :
         IF o = "raise"
         THEN /\ ApplyReturn(FALSE, "exception")
              /\ UNCHANGED a_log
         ELSE /\ a_log' = Append(a_log, Event("active_connection", "nmcli",
                                              o = "line"))
              /\ s_pc' = IF o = "line" THEN "a_nmmod" ELSE "a_file"
              /\ UNCHANGED <<a_ret, commits>>
    /\ UNCHANGED <<notScan, scans, dns_list, idx, results, probes, best, s_ret,
                   dns_config, dns_writes, at_start>>

\* where apply_dns goes after `p2 = _run(["nmcli", "c", "modify", ...])`
AfterNmModify(o) ==
    IF o = "ok" THEN "a_nmcycle" ELSE IF o = "nonzero" THEN "a_file"
    ELSE "applied"

ApplyNmModify ==
    /\ s_pc = "a_nmmod"
    /\ \E o \in RunOutcomes :
         /\ a_log' = Append(a_log, Event("run", "nmcli modify", o = "ok"))
         /\ IF AfterNmModify(o) = "applied"
            THEN ApplyReturn(FALSE, "exception")
            ELSE /\ s_pc' = AfterNmModify(o)
                 /\ UNCHANGED <<a_ret, commits>>
    /\ UNCHANGED <<notScan, scans, dns_list, idx, results, probes, best, s_ret,
                   dns_config, dns_writes, at_start>>

\* nmcli c down, nmcli c up (status not looked at), return
ApplyNmCycle ==
    /\ s_pc = "a_nmcycle"
    /\ \E raises \in BOOLEAN :
         /\ a_log' = Append(a_log, Event("run", "nmcli down, up", ~raises))
         /\ IF raises THEN ApplyReturn(FALSE, "exception")
            ELSE ApplyReturn(TRUE, "NetworkManager")
    /\ UNCHANGED <<notScan, scans, dns_list, idx, results, probes, best, s_ret,
                   dns_config, dns_writes, at_start>>

\* with open("/etc/resolv.conf", "w") as f: f.write(...), return
ApplyWriteFile ==
    /\ s_pc = "a_file"
    /\ \E raises \in BOOLEAN :
         /\ a_log' = Append(a_log, Event("write", "/etc/resolv.conf", ~raises))
         /\ IF raises THEN ApplyReturn(FALSE, "exception")
            ELSE ApplyReturn(TRUE, "/etc/resolv.conf")
    /\ UNCHANGED <<notScan, scans, dns_list, idx, results, probes, best, s_ret,
                   dns_config, dns_writes, at_start>>

\* mutant: the file saved whatever apply_dns returned
ShouldSave_Always(ret) == TRUE

\* the test `if success` after apply_dns
ShouldSave(ret) == ret.success

\* success, msg = apply_dns(ip) has returned: save and return
ScanFinish ==
    /\ s_pc = "applied"
    /\ IF ShouldSave(a_ret)
       THEN /\ dns_config' = save_dns_config(dns_config, best[1].ip,
                                             best[1].name, scans)
            /\ dns_writes' = dns_writes + 1
            /\ s_ret' = [success |-> TRUE, reason |-> "applied", best |-> best]
       ELSE /\ s_ret' = [success |-> FALSE, reason |-> "apply failed",
                         best |-> best]
            /\ UNCHANGED <<dns_config, dns_writes>>
    /\ s_pc' = "idle"
    /\ UNCHANGED <<notScan, scans, dns_list, idx, results, probes, best, a_log, a_ret,
                   at_start, commits>>

Next ==
    \/ ScanStart \/ ScoreNext \/ ScanSelect
    \/ ApplyCheckResolved \/ ApplyResolvectlDns \/ ApplyResolvectlRest
    \/ ApplyCheckNmcli \/ ApplyNmShow \/ ApplyNmModify \/ ApplyNmCycle
    \/ ApplyWriteFile \/ ScanFinish

Spec == Init /\ [][Next]_vars

TypeOK ==
    /\ s_pc \in {"idle", "scoring", "a_resolved", "a_rdns", "a_rrest",
                 "a_nmcli", "a_nmshow", "a_nmmod", "a_nmcycle", "a_file",
                 "applied", "raised"}
    /\ scans \in 0..MaxScans
    /\ dns_writes \in 0..MaxScans

(***************************************************************************)
(* Claims about the scan                                                   *)
(***************************************************************************)
Positions(seq) == 1..Len(seq)

\* C1: the candidate the scan selects has the least score of the results,
\* and of the results with that score it is the one scanned first.
C1_BestIsFirstMinimum ==
    best # None =>
        \E i \in Positions(results) :
            /\ results[i] = best[1]
            /\ \A j \in Positions(results) : results[j].score >= best[1].score
            /\ \A j \in 1..(i - 1) : results[j].score > best[1].score

\* two candidates scored alike: the earlier one is selected
C1_Witness ==
    /\ best # None
    /\ Len(results) >= 2
    /\ results[1].score = results[2].score
    /\ best[1] = results[1]

FailedPrimary(ip) ==
    \E k \in Positions(probes) :
        /\ probes[k].ip = ip
        /\ probes[k].domain = TEST_DOMAIN_1
        /\ probes[k].lat = None

\* C2: a candidate whose probe of the first test domain returned None is
\* never probed for the second domain and is not in the results.
C2_ShortCircuit ==
    \A c \in Positions(dns_list) :
        FailedPrimary(dns_list[c][2]) =>
            /\ \A k \in Positions(probes) :
                  probes[k].ip = dns_list[c][2]
                      => probes[k].domain # TEST_DOMAIN_2
            /\ \A r \in Positions(results) : results[r].ip # dns_list[c][2]

\* the first candidate failed the first domain, a later one was scored
C2_Witness ==
    /\ dns_list # <<>>
    /\ FailedPrimary(dns_list[1][2])
    /\ results # <<>>

Succeeded(domain, ip) ==
    \E k \in Positions(probes) :
        /\ probes[k].ip = ip
        /\ probes[k].domain = domain
        /\ probes[k].lat # None

\* C3: a candidate the loop has handled is in the results exactly when its
\* probes of both test domains returned a time, be it 0; its entry holds
\* its name and the two times; no other candidate is in the results.
C3_ScoredIffBothResolved ==
    /\ \A c \in Positions(dns_list) :
          (\E r \in Positions(results) : results[r].ip = dns_list[c][2])
              <=> /\ c < idx
                  /\ Succeeded(TEST_DOMAIN_1, dns_list[c][2])
                  /\ Succeeded(TEST_DOMAIN_2, dns_list[c][2])
    /\ \A r \in Positions(results) :
          /\ \E c \in Positions(dns_list) :
                dns_list[c] = <<results[r].name, results[r].ip>>
          /\ Probe(TEST_DOMAIN_1, results[r].ip, Some(results[r].lat1))
                \in {probes[k] : k \in Positions(probes)}
          /\ Probe(TEST_DOMAIN_2, results[r].ip, Some(results[r].lat2))
                \in {probes[k] : k \in Positions(probes)}

\* a candidate answering both domains in 0 ms is scored, one failing the
\* second domain is not
C3_Witness ==
    /\ Len(dns_list) >= 2
    /\ idx > Len(dns_list)
    /\ Len(results) = 1
    /\ results[1].lat1 = 0 /\ results[1].lat2 = 0 /\ results[1].score = 0
    /\ \E k \in Positions(probes) :
          probes[k].domain = TEST_DOMAIN_2 /\ probes[k].lat = None

(***************************************************************************)
(* Claims about apply_dns                                                  *)
(***************************************************************************)
Logged(e) == \E k \in Positions(a_log) : a_log[k] = e
Before(e, k) == \E i \in 1..(k - 1) : a_log[i] = e

\* the attempts of the three mechanisms, in their order
TryResolved(ok) == Event("run", "resolvectl dns", ok)
TryNmcli(ok) == Event("run", "nmcli modify", ok)
TryFile(ok) == Event("write", "/etc/resolv.conf", ok)

\* C6, as claimed: apply_dns returns failure only after the last of the
\* three mechanisms, the write of /etc/resolv.conf, was tried and failed.
C6_FailureOnlyAfterAllMechanisms ==
    (s_pc = "applied" /\ ~a_ret.success) => Logged(TryFile(FALSE))

\* C7: resolvectl is run only after resolvectl was found and
\* systemd-resolved found active; nmcli modify only after nmcli and an
\* active connection were found, and not after resolvectl was run; the file
\* is written only if neither command went through; a check that fails is
\* followed by the next mechanism; and the mechanism apply_dns reports is
\* the one that went through, no other did.
C7_PreconditionsAndOrder ==
    /\ \A k \in Positions(a_log) :
          /\ a_log[k] \in {TryResolved(TRUE), TryResolved(FALSE)} =>
                /\ Before(Event("has_cmd", "resolvectl", TRUE), k)
                /\ Before(Event("is_active", "systemd-resolved", TRUE), k)
          /\ a_log[k] \in {TryNmcli(TRUE), TryNmcli(FALSE)} =>
                /\ Before(Event("has_cmd", "nmcli", TRUE), k)
                /\ Before(Event("active_connection", "nmcli", TRUE), k)
                /\ ~Before(TryResolved(TRUE), k)
                /\ ~Before(TryResolved(FALSE), k)
          /\ a_log[k] \in {TryFile(TRUE), TryFile(FALSE)} =>
                /\ ~Before(TryResolved(TRUE), k)
                /\ ~Before(TryNmcli(TRUE), k)
          /\ a_log[k] \in {Event("has_cmd", "resolvectl", FALSE),
                           Event("is_active", "systemd-resolved", FALSE)} =>
                IF k = Len(a_log) THEN s_pc = "a_nmcli"
                ELSE a_log[k + 1].ev = "has_cmd" /\ a_log[k + 1].what = "nmcli"
          /\ a_log[k] \in {Event("has_cmd", "nmcli", FALSE),
                           Event("active_connection", "nmcli", FALSE),
                           TryNmcli(FALSE)} =>
                IF k = Len(a_log) THEN s_pc \in {"a_file", "applied", "idle"}
                ELSE a_log[k + 1].ev = "write"
    /\ Cardinality({e \in {TryResolved(TRUE), TryNmcli(TRUE), TryFile(TRUE)} :
                       Logged(e)}) <= 1
    /\ a_ret.success =>
          \/ a_ret.via = "systemd-resolved" /\ Logged(TryResolved(TRUE))
          \/ a_ret.via = "NetworkManager" /\ Logged(TryNmcli(TRUE))
          \/ a_ret.via = "/etc/resolv.conf" /\ Logged(TryFile(TRUE))

\* systemd-resolved is not active, nmcli modify fails, the file is written
C7_Witness ==
    /\ s_pc = "applied"
    /\ a_log = <<Event("has_cmd", "resolvectl", TRUE),
                 Event("is_active", "systemd-resolved", FALSE),
                 Event("has_cmd", "nmcli", TRUE),
                 Event("active_connection", "nmcli", TRUE),
                 TryNmcli(FALSE), TryFile(TRUE)>>
    /\ a_ret = [success |-> TRUE, via |-> "/etc/resolv.conf"]

CatalogFailed ==
    /\ dns_list # <<>>
    /\ idx > Len(dns_list)
    /\ \A c \in Positions(dns_list) :
          \E k \in Positions(probes) :
              probes[k].ip = dns_list[c][2] /\ probes[k].lat = None

\* C9: when every candidate failed, the scan does not raise, never enters
\* apply_dns, selects nothing, leaves DNS_CONFIG_FILE alone and returns
\* failure with no selection.
C9_AllFailedIsCleanFailure ==
    CatalogFailed =>
        /\ s_pc \in {"scoring", "idle"}
        /\ best = None
        /\ a_log = <<>> /\ a_ret = NoRet
        /\ dns_config = at_start.config /\ dns_writes = at_start.writes
        /\ s_pc = "idle" =>
              s_ret = [success |-> FALSE, reason |-> "no candidate",
                       best |-> None]

\* the scan has returned with every candidate failed, one of them at the
\* second domain
C9_Witness ==
    /\ CatalogFailed
    /\ s_pc = "idle"
    /\ s_ret.reason = "no candidate"
    /\ \E k \in Positions(probes) :
          probes[k].domain = TEST_DOMAIN_2 /\ probes[k].lat = None

(***************************************************************************)
(* The relay port-forward driver: SocatManager over one EasyTierConfig     *)
(***************************************************************************)
Ports == 1..MaxPort
Range(seq) == {seq[i] : i \in 1..Len(seq)}

\* the sequences over S in which no element occurs twice
RECURSIVE DistinctSeqs(_)
DistinctSeqs(S) ==
    {<<>>} \cup UNION {{<<x>> \o t : t \in DistinctSeqs(S \ {x})} : x \in S}

\* list.remove(x): the first occurrence goes
RECURSIVE RemoveFirst(_, _)
RemoveFirst(seq, x) ==
    IF seq = <<>> THEN <<>>
    ELSE IF Head(seq) = x THEN Tail(seq)
    ELSE <<Head(seq)>> \o RemoveFirst(Tail(seq), x)

\* the tunnel's configuration as the methods see it: the list in memory and
\* the list in the file
Config(ports, file) == [ports |-> ports, file |-> file]

\* the setter of forwarded_ports, with _save: the file is written only when
\* _auto_save is set
set_forwarded_ports(c, value) ==
    Config(value, IF auto_save THEN Some(value) ELSE c.file)

\* mutant: the port appended without the test `if port not in ports`
add_port_Untested(c, port) == set_forwarded_ports(c, Append(c.ports, port))

\* EasyTierConfig.add_port
add_port(c, port) ==
    IF port \notin Range(c.ports)
    THEN set_forwarded_ports(c, Append(c.ports, port))
    ELSE c

\* EasyTierConfig.remove_port
remove_port(c, port) ==
    IF port \in Range(c.ports)
    THEN set_forwarded_ports(c, RemoveFirst(c.ports, port))
    ELSE c

\* SocatManager._is_port_listening: netstat piped to grep; without netstat
\* the pipe finds nothing
is_port_listening(l, port) == netstat /\ l[port] # "none"

Returned(success, msg, l, cmds) ==
    [success |-> success, msg |-> msg, listener |-> l, cmds |-> cmds]

\* what the launch of socat does: the shell command fails, socat binds the
\* port, or socat exits before the port is looked at again
Launches == {"failed", "bound", "exited"}

\* SocatManager._get_port_process: the name of the listening process when
\* lsof finds it, None when it does not
get_port_process(l, port, lsof) == IF lsof THEN Some(l[port]) ELSE None

\* f"Port {local_port} is already in use by: {proc or 'unknown process'}"
InUseBy(proc) ==
    "port already in use by: "
        \o (IF proc = None THEN "unknown process" ELSE proc[1])

\* start_forward from the launch of socat on
Launch(l, port, launch) ==
    IF launch = "failed"
    THEN Returned(FALSE, "failed to start socat", l,
                  <<"which socat", "netstat", "socat">>)
    ELSE LET after == IF launch = "bound" /\ l[port] = "none"
                      THEN [l EXCEPT ![port] = "socat"]
                      ELSE l
             cmds == <<"which socat", "netstat", "socat", "netstat">>
         IN  IF is_port_listening(after, port)
             THEN Returned(TRUE, "socat forward started", after, cmds)
             ELSE Returned(FALSE, "socat did not start", after, cmds)

\* SocatManager.start_forward: all it can return, over what lsof finds and
\* what the launch does
start_forward(l, port) ==
    IF ~socat_installed
    THEN {Returned(FALSE, "socat is not installed", l, <<"which socat">>)}
    ELSE IF is_port_listening(l, port)
    THEN {Returned(FALSE, InUseBy(get_port_process(l, port, lsof)), l,
                   <<"which socat", "netstat", "lsof">>) : lsof \in BOOLEAN}
    ELSE {Launch(l, port, launch) : launch \in Launches}

\* mutant: pkill run without the first look at who listens
stop_forward_AlwaysKills(l, port) ==
    {LET after == IF killed /\ l[port] = "socat"
                  THEN [l EXCEPT ![port] = "none"]
                  ELSE l
         cmds == <<"netstat", "pkill", "netstat">>
     IN  IF ~is_port_listening(after, port)
         THEN Returned(TRUE, "stopped socat forward", after, cmds)
         ELSE Returned(FALSE, "failed to stop socat", after, cmds)
     : killed \in BOOLEAN}

\* SocatManager.stop_forward: all it can return; pkill ends a socat
\* listener, or fails to within the half second; it ends no other process
stop_forward(l, port) ==
    IF ~is_port_listening(l, port)
    THEN {Returned(TRUE, "not being forwarded", l, <<"netstat">>)}
    ELSE {LET after == IF killed /\ l[port] = "socat"
                       THEN [l EXCEPT ![port] = "none"]
                       ELSE l
              cmds == <<"netstat", "pkill", "netstat">>
          IN  IF ~is_port_listening(after, port)
              THEN Returned(TRUE, "stopped socat forward", after, cmds)
              ELSE Returned(FALSE, "failed to stop socat", after, cmds)
          : killed \in BOOLEAN}

Outcome(success, msg, c, l, cmds) ==
    [success |-> success, msg |-> msg, config |-> c, listener |-> l,
     cmds |-> cmds]

\* mutant: the port added to the list before socat is started
create_forward_AddsFirst(has_config, c, l, port) ==
    IF ~has_config
    THEN {Outcome(FALSE, "No tunnel configuration provided", c, l, <<>>)}
    ELSE IF port \in Range(c.ports)
    THEN {Outcome(FALSE, "already in forwarded list", c, l, <<>>)}
    ELSE IF remote_forward_ip = None
    THEN {Outcome(FALSE, "Remote forward IP not configured", c, l, <<>>)}
    ELSE {Outcome(started.success,
                  IF started.success THEN "port forward started (socat)"
                  ELSE started.msg,
                  add_port(c, port), started.listener, started.cmds)
          : started \in start_forward(l, port)}

\* SocatManager.create_forward: all it can return
create_forward(has_config, c, l, port) ==
    IF ~has_config
    THEN {Outcome(FALSE, "No tunnel configuration provided", c, l, <<>>)}
    ELSE IF port \in Range(c.ports)
    THEN {Outcome(FALSE, "already in forwarded list", c, l, <<>>)}
    ELSE IF remote_forward_ip = None
    THEN {Outcome(FALSE, "Remote forward IP not configured", c, l, <<>>)}
    ELSE {IF ~started.success
          THEN Outcome(FALSE, started.msg, c, started.listener, started.cmds)
          ELSE Outcome(TRUE, "port forward started (socat)",
                       add_port(c, port), started.listener, started.cmds)
          : started \in start_forward(l, port)}

\* mutant: the forwarder stopped without the test of the forwarded list
remove_forward_Unlisted(has_config, c, l, port) ==
    IF ~has_config
    THEN {Outcome(FALSE, "No tunnel configuration provided", c, l, <<>>)}
    ELSE {IF ~stopped.success
          THEN Outcome(FALSE, stopped.msg, c, stopped.listener, stopped.cmds)
          ELSE Outcome(TRUE, "port forward removed",
                       remove_port(c, port), stopped.listener, stopped.cmds)
          : stopped \in stop_forward(l, port)}

\* SocatManager.remove_forward: all it can return
remove_forward(has_config, c, l, port) ==
    IF ~has_config
    THEN {Outcome(FALSE, "No tunnel configuration provided", c, l, <<>>)}
    ELSE IF port \notin Range(c.ports)
    THEN {Outcome(FALSE, "not in forwarded list", c, l, <<>>)}
    ELSE {IF ~stopped.success
          THEN Outcome(FALSE, stopped.msg, c, stopped.listener, stopped.cmds)
          ELSE Outcome(TRUE, "port forward removed",
                       remove_port(c, port), stopped.listener, stopped.cmds)
          : stopped \in stop_forward(l, port)}

Call(name, port, has_config) ==
    [name |-> name, port |-> port, has_config |-> has_config]

\* a tunnel loaded from its file (get_tunnel) saves on every change; one
\* made by create_tunnel and not saved yet has no file
FwdInit ==
    /\ fwd_pc = "ready"
    /\ forwarded_ports \in DistinctSeqs(Ports)
    /\ remote_forward_ip \in {None, Some("10.0.0.2")}
    /\ auto_save \in BOOLEAN
    /\ tunnel_file = IF auto_save THEN Some(forwarded_ports) ELSE None
    /\ socat_installed \in BOOLEAN
    /\ netstat \in BOOLEAN
    /\ listener \in [Ports -> {"none", "socat", "other"}]
    /\ f_op = NoCall /\ f_pre = <<>> /\ f_ret = NoCallRet /\ f_created = {}
    /\ f_cmds = <<>>
    /\ NormOff /\ ProbeOff /\ ScanOff /\ OpsOff

CreateForward ==
    /\ fwd_pc = "ready"
    /\ \E port \in Ports, has_config \in BOOLEAN :
          \E r \in create_forward(has_config,
                                  Config(forwarded_ports, tunnel_file),
                                  listener, port) :
              /\ forwarded_ports' = r.config.ports
              /\ tunnel_file' = r.config.file
              /\ listener' = r.listener
              /\ f_op' = Call("create_forward", port, has_config)
              /\ f_pre' = forwarded_ports
              /\ f_ret' = [success |-> r.success, msg |-> r.msg]
              /\ f_created' = IF r.success THEN f_created \cup {port}
                              ELSE f_created
              /\ f_cmds' = r.cmds
    /\ UNCHANGED <<fwd_pc, remote_forward_ip, auto_save, socat_installed,
                   netstat, notFwd>>

RemoveForward ==
    /\ fwd_pc = "ready"
    /\ \E port \in Ports, has_config \in BOOLEAN :
          \E r \in remove_forward(has_config,
                                  Config(forwarded_ports, tunnel_file),
                                  listener, port) :
              /\ forwarded_ports' = r.config.ports
              /\ tunnel_file' = r.config.file
              /\ listener' = r.listener
              /\ f_op' = Call("remove_forward", port, has_config)
              /\ f_pre' = forwarded_ports
              /\ f_ret' = [success |-> r.success, msg |-> r.msg]
              /\ f_created' = IF r.success THEN f_created \ {port}
                              ELSE f_created
              /\ f_cmds' = r.cmds
    /\ UNCHANGED <<fwd_pc, remote_forward_ip, auto_save, socat_installed,
                   netstat, notFwd>>

\* add_port called on the configuration itself
AddPort ==
    /\ fwd_pc = "ready"
    /\ \E port \in Ports :
          LET c == add_port(Config(forwarded_ports, tunnel_file), port)
          IN  /\ forwarded_ports' = c.ports
              /\ tunnel_file' = c.file
              /\ f_op' = Call("add_port", port, TRUE)
              /\ f_pre' = forwarded_ports
              /\ f_ret' = [success |-> TRUE, msg |-> "None"]
              /\ f_cmds' = <<>>
    /\ UNCHANGED <<fwd_pc, remote_forward_ip, auto_save, fwdHost, f_created,
                   notFwd>>

\* remove_port called on the configuration itself
RemovePort ==
    /\ fwd_pc = "ready"
    /\ \E port \in Ports :
          LET c == remove_port(Config(forwarded_ports, tunnel_file), port)
          IN  /\ forwarded_ports' = c.ports
              /\ tunnel_file' = c.file
              /\ f_op' = Call("remove_port", port, TRUE)
              /\ f_pre' = forwarded_ports
              /\ f_ret' = [success |-> TRUE, msg |-> "None"]
              /\ f_cmds' = <<>>
              /\ f_created' = f_created \ {port}
    /\ UNCHANGED <<fwd_pc, remote_forward_ip, auto_save, fwdHost, notFwd>>

\* stop_forward called on its own
StopForward ==
    /\ fwd_pc = "ready"
    /\ \E port \in Ports :
          \E r \in stop_forward(listener, port) :
              /\ listener' = r.listener
              /\ f_op' = Call("stop_forward", port, FALSE)
              /\ f_pre' = forwarded_ports
              /\ f_ret' = [success |-> r.success, msg |-> r.msg]
              /\ f_cmds' = r.cmds
    /\ UNCHANGED <<fwd_pc, fwdConfig, socat_installed, netstat, f_created,
                   notFwd>>

\* the host between two calls: a listener exits, another process binds a
\* free port, the forward daemon starts a socat.  The record of the last
\* call describes the host as the call returned, and is dropped here.
HostChange ==
    /\ fwd_pc = "ready"
    /\ \E port \in Ports, who \in {"none", "socat", "other"} :
          /\ who # listener[port]
          /\ listener' = [listener EXCEPT ![port] = who]
    /\ f_op' = NoCall /\ f_pre' = <<>> /\ f_ret' = NoCallRet /\ f_cmds' = <<>>
    /\ UNCHANGED <<fwd_pc, fwdConfig, socat_installed, netstat, f_created,
                   notFwd>>

FwdNext == CreateForward \/ RemoveForward \/ AddPort \/ RemovePort
              \/ StopForward \/ HostChange

SpecFwd == FwdInit /\ [][FwdNext]_vars

(***************************************************************************)
(* Claims about the forwarded-ports list                                   *)
(***************************************************************************)
Count(seq, x) == Cardinality({i \in 1..Len(seq) : seq[i] = x})

\* C10: from a list without duplicates, after any calls of create_forward,
\* remove_forward, add_port and remove_port each port is at most once in the
\* tunnel's list, in memory and in its file; create_forward of a port that
\* is in the list returns the failure "already in forwarded list" and
\* leaves the list as it was, with one entry for the port; add_port of such
\* a port leaves the list as it was too.
C10_PortsStayDistinct ==
    /\ \A p \in Ports : Count(forwarded_ports, p) <= 1
    /\ tunnel_file # None =>
          \A p \in Ports : Count(tunnel_file[1], p) <= 1
    /\ (f_op.name = "create_forward" /\ f_op.has_config
            /\ f_op.port \in Range(f_pre)) =>
          /\ f_ret = [success |-> FALSE, msg |-> "already in forwarded list"]
          /\ forwarded_ports = f_pre
          /\ Count(forwarded_ports, f_op.port) = 1
    /\ (f_op.name = "add_port" /\ f_op.port \in Range(f_pre)) =>
          /\ forwarded_ports = f_pre
          /\ Count(forwarded_ports, f_op.port) = 1

\* create_forward added a port, and create_forward of that port again was
\* turned down
C10_Witness ==
    /\ f_op.name = "create_forward"
    /\ f_op.port \in f_created
    /\ f_ret = [success |-> FALSE, msg |-> "already in forwarded list"]
    /\ Len(forwarded_ports) = 2
    /\ Count(forwarded_ports, f_op.port) = 1

(***************************************************************************)
(* Claims about create_forward, remove_forward and stop_forward            *)
(***************************************************************************)
\* the step is create_forward(port), or remove_forward(port), on a manager
\* that has the tunnel's configuration
\* the step is a call of the driver on `port`, by the record the call leaves
CreateForwardOf(port) == f_op' = Call("create_forward", port, TRUE)
RemoveForwardOf(port) == f_op' = Call("remove_forward", port, TRUE)
StopForwardOf(port) == f_op' = Call("stop_forward", port, FALSE)

Ran(cmd) == \E k \in 1..Len(f_cmds) : f_cmds[k] = cmd

\* C11: remove_forward of a port that is not in the tunnel's list returns
\* the failure "not in forwarded list", runs no command on the host, and
\* leaves the tunnel's configuration, its file and the listeners as they
\* were.
C11_NotForwardedIsNoOp ==
    [][\A port \in Ports :
          (RemoveForwardOf(port) /\ port \notin Range(forwarded_ports)) =>
              /\ f_ret' = [success |-> FALSE, msg |-> "not in forwarded list"]
              /\ f_cmds' = <<>>
              /\ UNCHANGED <<fwdConfig, fwdHost>>]_vars

\* remove_forward of a port outside the list was turned down while a socat
\* listens on that port and the list holds another port
C11_Witness ==
    /\ f_op = Call("remove_forward", f_op.port, TRUE)
    /\ f_ret = [success |-> FALSE, msg |-> "not in forwarded list"]
    /\ f_cmds = <<>>
    /\ forwarded_ports # <<>>
    /\ listener[f_op.port] = "socat"

\* the outcomes of create_forward that report the port as bound
Conflicts(l, port) ==
    {[success |-> FALSE, msg |-> InUseBy(proc)] : proc \in {None, Some(l[port])}}

\* C12, as claimed: create_forward of a port some process listens on (the
\* port not in the list yet, the tunnel with a remote target, socat
\* installed) fails as a conflict, launches no socat and leaves the list as
\* it was.
C12_BoundPortIsConflict ==
    [][\A port \in Ports :
          (/\ CreateForwardOf(port)
           /\ port \notin Range(forwarded_ports)
           /\ remote_forward_ip # None
           /\ socat_installed
           /\ listener[port] # "none") =>
              /\ f_ret' \in Conflicts(listener, port)
              /\ \A k \in 1..Len(f_cmds') : f_cmds'[k] # "socat"
              /\ UNCHANGED <<fwdConfig, listener>>]_vars

\* C13, as claimed, on a host whose listeners netstat shows: remove_forward
\* of a port that is in the list succeeds whoever listens on the port, and
\* ends with nothing listening on it and the port out of the list.
C13_ListedPortIsRemoved ==
    [][\A port \in Ports :
          (RemoveForwardOf(port) /\ port \in Range(forwarded_ports)
              /\ netstat) =>
              /\ f_ret'.success
              /\ listener'[port] = "none"
              /\ port \notin Range(forwarded_ports')]_vars

\* C14: remove_forward of a port that is in the list and that nothing
\* listens on succeeds, takes the port out of the list and runs no pkill;
\* stop_forward of a port nothing listens on returns success and runs no
\* pkill; neither changes who listens.
C14_RemovalOfStoppedForward ==
    [][\A port \in Ports :
          /\ (/\ RemoveForwardOf(port)
              /\ port \in Range(forwarded_ports)
              /\ listener[port] = "none") =>
                 /\ f_ret' = [success |-> TRUE, msg |-> "port forward removed"]
                 /\ forwarded_ports' = RemoveFirst(forwarded_ports, port)
                 /\ port \notin Range(forwarded_ports')
                 /\ f_cmds' = <<"netstat">>
                 /\ UNCHANGED listener
          /\ (StopForwardOf(port) /\ listener[port] = "none") =>
                 /\ f_ret' = [success |-> TRUE, msg |-> "not being forwarded"]
                 /\ f_cmds' = <<"netstat">>
                 /\ UNCHANGED <<fwdConfig, listener>>]_vars

\* create_forward added a port, its socat went away, and remove_forward took
\* the port out of the list with one look at the listeners and no pkill
C14_Witness ==
    /\ f_op = Call("remove_forward", f_op.port, TRUE)
    /\ f_op.port \in Range(f_pre)
    /\ netstat
    /\ f_ret = [success |-> TRUE, msg |-> "port forward removed"]
    /\ f_cmds = <<"netstat">>
    /\ f_op.port \notin Range(forwarded_ports)
    /\ listener[f_op.port] = "none"
    /\ forwarded_ports # <<>>

(***************************************************************************)
(* SocatManager.start_all_forwards                                         *)
(***************************************************************************)
\* the tunnels of the host, in the order get_all_tunnels lists them
TunnelOrder == <<"tunnel1", "tunnel2">>

Tunnel(name, remote, ports) ==
    [name |-> name, remote_forward_ip |-> remote, forwarded_ports |-> ports]

\* the ports the two loops reach, in their order: those of the tunnels that
\* have a remote_forward_ip
RECURSIVE Targets(_)
Targets(ts) ==
    IF ts = <<>> THEN <<>>
    ELSE (IF Head(ts).remote_forward_ip = None THEN <<>>
          ELSE Head(ts).forwarded_ports) \o Targets(Tail(ts))

Loop0(l) == [listener |-> l, count |-> 0, errors |-> <<>>, log |-> <<>>]

\* the body of `for port in tunnel.forwarded_ports`, for one return of
\* start_forward
StartOne(st, port, r) ==
    [listener |-> r.listener,
     count |-> IF r.success THEN st.count + 1 ELSE st.count,
     errors |-> IF r.success THEN st.errors
                ELSE Append(st.errors, [port |-> port, msg |-> r.msg]),
     log |-> Append(st.log, [port |-> port, success |-> r.success,
                             msg |-> r.msg])]

\* mutant: the loops left at the first port that fails
RECURSIVE StartPorts_StopsAtFailure(_, _)
StartPorts_StopsAtFailure(todo, st) ==
    IF todo = <<>> THEN {st}
    ELSE UNION {IF r.success
                THEN StartPorts_StopsAtFailure(Tail(todo),
                                               StartOne(st, Head(todo), r))
                ELSE {StartOne(st, Head(todo), r)}
                : r \in start_forward(st.listener, Head(todo))}

\* the two loops of start_all_forwards over the ports still to start: all
\* they can end in
RECURSIVE StartPorts(_, _)
StartPorts(todo, st) ==
    IF todo = <<>> THEN {st}
    ELSE UNION {StartPorts(Tail(todo), StartOne(st, Head(todo), r))
                : r \in start_forward(st.listener, Head(todo))}

\* `if errors: return False, ...` / `return True, ...`
BulkReturn(st) ==
    [success |-> st.errors = <<>>, count |-> st.count, errors |-> st.errors]

BulkInit ==
    /\ b_pc = "call"
    /\ tunnels \in {<<Tunnel(TunnelOrder[1], t1.remote, t1.ports),
                      Tunnel(TunnelOrder[2], t2.remote, t2.ports)>> :
                       t1 \in [remote : {None, Some("10.0.0.2")},
                               ports : DistinctSeqs(Ports)],
                       t2 \in [remote : {None, Some("10.0.0.3")},
                               ports : DistinctSeqs(Ports)]}
    /\ b_log = <<>> /\ b_ret = NoBulkRet
    /\ socat_installed \in BOOLEAN
    /\ netstat \in BOOLEAN
    /\ listener \in [Ports -> {"none", "socat", "other"}]
    /\ fwd_pc = "off" /\ forwarded_ports = <<>> /\ remote_forward_ip = None
    /\ auto_save = FALSE /\ tunnel_file = None
    /\ f_op = NoCall /\ f_pre = <<>> /\ f_ret = NoCallRet /\ f_created = {}
    /\ f_cmds = <<>>
    /\ DnsOff /\ MenuOff /\ DelOff /\ ShellOff

StartAllForwards ==
    /\ b_pc = "call"
    /\ \E st \in StartPorts(Targets(tunnels), Loop0(listener)) :
          /\ listener' = st.listener
          /\ b_log' = st.log
          /\ b_ret' = BulkReturn(st)
    /\ b_pc' = "returned"
    /\ UNCHANGED <<dnsVars, fwd_pc, fwdConfig, fwdCalls, socat_installed,
                   netstat, tunnels, menuVars, delVars, shellVars>>

BulkNext == StartAllForwards

SpecBulk == BulkInit /\ [][BulkNext]_vars

\* ---- C16 ----
Failed(log) == SelectSeq(log, LAMBDA a : ~a.success)
Started(log) == SelectSeq(log, LAMBDA a : a.success)

\* C16: start_all_forwards calls start_forward once for every port of every
\* tunnel that has a remote_forward_ip, in order, whatever the calls before
\* returned; it returns success exactly when no call failed, the count of
\* the calls that succeeded, and one error per call that failed, with the
\* port and the reason of that call.
C16_StartAllReportsEveryPort ==
    b_pc = "returned" =>
        /\ [k \in 1..Len(b_log) |-> b_log[k].port] = Targets(tunnels)
        /\ b_ret.success <=> Failed(b_log) = <<>>
        /\ b_ret.count = Len(Started(b_log))
        /\ b_ret.errors =
              [k \in 1..Len(Failed(b_log)) |->
                  [port |-> Failed(b_log)[k].port, msg |-> Failed(b_log)[k].msg]]

\* a port failed, a later port of the next tunnel was started all the same
C16_Witness ==
    /\ b_pc = "returned"
    /\ Len(b_log) >= 2
    /\ ~b_log[1].success
    /\ b_log[Len(b_log)].success
    /\ b_ret.count >= 1
    /\ Len(b_ret.errors) >= 1
    /\ tunnels[1].remote_forward_ip # None /\ tunnels[1].forwarded_ports # <<>>
    /\ tunnels[2].remote_forward_ip # None /\ tunnels[2].forwarded_ports # <<>>

(***************************************************************************)
(* The list of forwards the two forwards menus show                        *)
(***************************************************************************)
Modes == {"none", "haproxy", "socat"}

\* SocatManager.list_forwards for the tunnel of the menu; lsof answers or
\* does not
list_forwards(ports, remote, l, lsof) ==
    IF remote = None THEN <<>>
    ELSE [k \in 1..Len(ports) |->
            LET active == is_port_listening(l, ports[k])
                proc == IF active THEN get_port_process(l, ports[k], lsof)
                        ELSE None
            IN  [port |-> ports[k], active |-> active, process |-> proc,
                 status_str |-> IF proc = Some("socat") /\ active
                                THEN "Active (Socat)"
                                ELSE IF active THEN "Active (Other)"
                                ELSE "Stopped"]]

\* HAProxyManager.list_forwards, as the specification describes a listing:
\* liveness is what a live check of the host finds
haproxy_list_forwards(ports, remote, l) ==
    IF remote = None THEN <<>>
    ELSE [k \in 1..Len(ports) |->
            [port |-> ports[k], active |-> l[ports[k]] # "none",
             process |-> None, status_str |-> "haproxy"]]

\* the list handle_easytier_forwards_menu builds
EasyTierList(ports, mode) ==
    [k \in 1..Len(ports) |->
        [port |-> ports[k], active |-> mode # "none", process |-> None,
         status_str |-> "menu"]]

ListInit ==
    /\ m_pc = "list"
    /\ forward_mode \in Modes
    /\ haproxy = FALSE /\ daemon = FALSE /\ NoPass
    /\ forwarded_ports \in DistinctSeqs(Ports)
    /\ remote_forward_ip \in {None, Some("10.0.0.2")}
    /\ netstat \in BOOLEAN
    /\ listener \in [Ports -> {"none", "socat", "other"}]
    /\ fwd_pc = "off" /\ auto_save = FALSE /\ tunnel_file = None
    /\ socat_installed = TRUE
    /\ f_op = NoCall /\ f_pre = <<>> /\ f_ret = NoCallRet /\ f_created = {}
    /\ f_cmds = <<>>
    /\ DnsOff /\ BulkOff /\ DelOff /\ ShellOff

Shown(menu, list) ==
    /\ m_pc = "list"
    /\ m_pc' = "shown"
    /\ m_menu' = menu
    /\ m_mode' = forward_mode
    /\ m_list' = list
    /\ UNCHANGED <<dnsVars, fwdVars, bulkVars, delVars, shellVars, menuHost,
                   m_choice,
                   m_cmds>>

\* handle_forwards_menu: the list of the relay driver in mode "socat"
L2tpListSocat ==
    /\ forward_mode = "socat"
    /\ \E lsof \in BOOLEAN :
          Shown("l2tp", list_forwards(forwarded_ports, remote_forward_ip,
                                      listener, lsof))

\* handle_forwards_menu: the list of HAProxyManager in the other modes
L2tpListHaproxy ==
    /\ forward_mode # "socat"
    /\ Shown("l2tp", haproxy_list_forwards(forwarded_ports, remote_forward_ip,
                                           listener))

\* handle_easytier_forwards_menu
EasyTierShowList ==
    /\ forward_mode \in Modes
    /\ Shown("easytier", EasyTierList(forwarded_ports, forward_mode))

ListNext == L2tpListSocat \/ L2tpListHaproxy \/ EasyTierShowList

SpecList == ListInit /\ [][ListNext]_vars

\* C15, as claimed, on a host whose listeners netstat shows: every entry of
\* a list of forwards a menu shows is marked active exactly when something
\* listens on its port as the list is made.
C15_ListedActiveIffListening ==
    (m_pc = "shown" /\ netstat) =>
        \A k \in 1..Len(m_list) :
            m_list[k].active <=> listener[m_list[k].port] # "none"

(***************************************************************************)
(* The forwards menus: restart of the daemon and switch of the mode        *)
(***************************************************************************)
\* the services and relays of the host the menus act on
Host(mode, hap, dmn, l) ==
    [forward_mode |-> mode, haproxy |-> hap, daemon |-> dmn, listener |-> l]

\* what a step of a menu pass leaves: the host, and the commands run so far
Pass(h, cmds) == [h |-> h, cmds |-> cmds]

\* the relays after the forward daemon started under `mode`: in mode "socat"
\* it starts a relay on the ports it can, in the other modes none
forward_daemon(mode, l) ==
    IF mode = "socat"
    THEN {l2 \in [Ports -> {"none", "socat"}] :
             \A p \in Ports : l[p] = "socat" => l2[p] = "socat"}
    ELSE {l}

\* restart_forward_daemon
restart_forward_daemon(p) ==
    LET mode == p.h.forward_mode
        cmds == IF mode = "haproxy"
                THEN p.cmds \o <<"systemctl start haproxy">>
                ELSE p.cmds
    IN  {Pass([p.h EXCEPT !.haproxy = @ \/ mode = "haproxy",
                          !.daemon = TRUE,
                          !.listener = l2],
              cmds \o <<"systemctl restart vortexl2-forward-daemon">>) :
            l2 \in forward_daemon(mode, p.h.listener)}

\* `systemctl stop haproxy`
stop_haproxy(p) ==
    Pass([p.h EXCEPT !.haproxy = FALSE], p.cmds \o <<"systemctl stop haproxy">>)

\* stop_all_socat, SocatManager.stop_all_forwards: pkill ends the relays, or
\* some of them survive it; the menu does not look at what it returns
stop_all_socat(p) ==
    {Pass([p.h EXCEPT !.listener = l2], p.cmds \o <<"stop_all_socat">>) :
        l2 \in {l \in [Ports -> {"none", "socat"}] :
                   \A q \in Ports : l[q] = "socat" => p.h.listener[q] = "socat"}}

\* set_forward_mode
set_forward_mode(p, new_mode) ==
    Pass([p.h EXCEPT !.forward_mode = new_mode],
         p.cmds \o <<"set_forward_mode">>)

\* the operator chose every mode: the test of the menus without its second
\* half
ModeChanges_AnyChoice(new_mode, current_mode) == new_mode # None

\* `if new_mode and new_mode != current_mode`
ModeChanges(new_mode, current_mode) ==
    new_mode # None /\ new_mode # Some(current_mode)

\* handle_forwards_menu, choice "6"
l2tp_change_mode(h, new_mode, confirm) ==
    IF ~ModeChanges(new_mode, h.forward_mode) THEN {Pass(h, <<>>)}
    ELSE LET stopped == IF h.forward_mode = "haproxy"
                        THEN {stop_haproxy(Pass(h, <<>>))}
                        ELSE IF h.forward_mode = "socat"
                        THEN stop_all_socat(Pass(h, <<>>))
                        ELSE {Pass(h, <<>>)}
             written == {set_forward_mode(p, new_mode[1]) : p \in stopped}
         IN  IF new_mode[1] # "none"
             THEN IF confirm = "yes"
                  THEN UNION {restart_forward_daemon(p) : p \in written}
                  ELSE written
             ELSE {stop_haproxy(p) : p \in written}

\* handle_easytier_forwards_menu, choice "6"
easytier_change_mode(h, new_mode) ==
    IF ~ModeChanges(new_mode, h.forward_mode) THEN {Pass(h, <<>>)}
    ELSE LET written == set_forward_mode(Pass(h, <<>>), new_mode[1])
         IN  IF new_mode[1] # "none"
             THEN restart_forward_daemon(written)
             ELSE {written}

\* what show_forward_mode_menu can lead to: a mode, or None for any other key
NewModes == {None} \cup {Some(m) : m \in Modes}

MenuInit ==
    /\ m_pc = "menu"
    /\ forward_mode = "none" /\ haproxy = FALSE /\ daemon = FALSE
    /\ NoPass
    /\ listener = [p \in Ports |-> "none"]
    /\ fwd_pc = "off" /\ forwarded_ports = <<>> /\ remote_forward_ip = None
    /\ auto_save = FALSE /\ tunnel_file = None
    /\ socat_installed = TRUE /\ netstat = TRUE
    /\ f_op = NoCall /\ f_pre = <<>> /\ f_ret = NoCallRet /\ f_created = {}
    /\ f_cmds = <<>>
    /\ DnsOff /\ BulkOff /\ DelOff /\ ShellOff

\* the host as a pass of a menu starts
HostNow == Host(forward_mode, haproxy, daemon, listener)

\* one pass of a menu loop: the choice made, and what it left
MenuPass(menu, choice, p) ==
    /\ m_pc = "menu"
    /\ m_menu' = menu
    /\ m_mode' = forward_mode
    /\ m_choice' = choice
    /\ m_cmds' = p.cmds
    /\ forward_mode' = p.h.forward_mode
    /\ haproxy' = p.h.haproxy
    /\ daemon' = p.h.daemon
    /\ listener' = p.h.listener
    /\ UNCHANGED <<dnsVars, bulkVars, delVars, shellVars, m_pc, m_list, fwd_pc,
                   remote_forward_ip, auto_save, tunnel_file, socat_installed,
                   netstat, fwdCalls>>

\* HAProxyManager.add_multiple_forwards and remove_multiple_forwards, as
\* the menus label them ("Add Forwards to Config"): the port joins or leaves
\* the tunnel's list
haproxy_add_forward(ports, port) ==
    IF port \in Range(ports) THEN ports ELSE Append(ports, port)
haproxy_remove_forward(ports, port) == RemoveFirst(ports, port)

\* what prompt_ports returns: a port, or None for an empty entry
PromptPorts == {None} \cup {Some(port) : port \in Ports}

\* choice "1" of either forwards menu: `config` is the list that results,
\* `pass` the host and the commands run
menu_add(h, ports, entry) ==
    IF h.forward_mode = "none" \/ entry = None
    THEN {[config |-> ports, pass |-> Pass(h, <<>>)]}
    ELSE {[config |-> haproxy_add_forward(ports, entry[1]), pass |-> p] :
             p \in restart_forward_daemon(
                      Pass(h, <<"HAProxyManager.add_multiple_forwards">>))}

\* choice "2" of either forwards menu
menu_remove(h, ports, entry) ==
    IF entry = None THEN {[config |-> ports, pass |-> Pass(h, <<>>)]}
    ELSE LET removed == haproxy_remove_forward(ports, entry[1])
             called == Pass(h, <<"HAProxyManager.remove_multiple_forwards">>)
         IN  IF h.forward_mode # "none"
             THEN {[config |-> removed, pass |-> p] :
                      p \in restart_forward_daemon(called)}
             ELSE {[config |-> removed, pass |-> called]}

\* handle_forwards_menu, choice "1"
L2tpAdd ==
    \E entry \in PromptPorts :
        \E r \in menu_add(HostNow, forwarded_ports, entry) :
            /\ MenuPass("l2tp", [NoChoice EXCEPT !.choice = "1"], r.pass)
            /\ forwarded_ports' = r.config

\* handle_forwards_menu, choice "2"
L2tpRemove ==
    \E entry \in PromptPorts :
        \E r \in menu_remove(HostNow, forwarded_ports, entry) :
            /\ MenuPass("l2tp", [NoChoice EXCEPT !.choice = "2"], r.pass)
            /\ forwarded_ports' = r.config

\* handle_easytier_forwards_menu, choice "1"
EasyTierAdd ==
    \E entry \in PromptPorts :
        \E r \in menu_add(HostNow, forwarded_ports, entry) :
            /\ MenuPass("easytier", [NoChoice EXCEPT !.choice = "1"], r.pass)
            /\ forwarded_ports' = r.config

\* handle_easytier_forwards_menu, choice "2"
EasyTierRemove ==
    \E entry \in PromptPorts :
        \E r \in menu_remove(HostNow, forwarded_ports, entry) :
            /\ MenuPass("easytier", [NoChoice EXCEPT !.choice = "2"], r.pass)
            /\ forwarded_ports' = r.config

\* handle_forwards_menu, choice "4"
L2tpRestart ==
    \E p \in (IF forward_mode = "none" THEN {Pass(HostNow, <<>>)}
              ELSE restart_forward_daemon(Pass(HostNow, <<>>))) :
        /\ MenuPass("l2tp", [NoChoice EXCEPT !.choice = "4"], p)
        /\ UNCHANGED forwarded_ports

\* handle_forwards_menu, choice "6"
L2tpChangeMode ==
    \E new_mode \in NewModes, answer \in {"yes", "no"} :
        LET asked == ModeChanges(new_mode, forward_mode)
                        /\ new_mode # Some("none")
            confirm == IF asked THEN answer ELSE "not asked"
        IN  /\ ~asked => answer = "no"
            /\ \E p \in l2tp_change_mode(HostNow, new_mode, confirm) :
                  /\ MenuPass("l2tp", [choice |-> "6", new_mode |-> new_mode,
                                       confirm |-> confirm], p)
                  /\ UNCHANGED forwarded_ports

\* handle_easytier_forwards_menu, choices "4" and "5"
EasyTierRestart ==
    \E choice \in {"4", "5"} :
        \E p \in restart_forward_daemon(Pass(HostNow, <<>>)) :
            /\ MenuPass("easytier", [NoChoice EXCEPT !.choice = choice], p)
            /\ UNCHANGED forwarded_ports

\* handle_easytier_forwards_menu, choice "6"
EasyTierChangeMode ==
    \E new_mode \in NewModes :
        \E p \in easytier_change_mode(HostNow, new_mode) :
            /\ MenuPass("easytier", [choice |-> "6", new_mode |-> new_mode,
                                     confirm |-> "not asked"], p)
            /\ UNCHANGED forwarded_ports

MenuNext ==
    \/ L2tpRestart
    \/ L2tpChangeMode
    \/ EasyTierRestart
    \/ EasyTierChangeMode
    \/ L2tpAdd
    \/ L2tpRemove
    \/ EasyTierAdd
    \/ EasyTierRemove

SpecMenu == MenuInit /\ [][MenuNext]_vars

(***************************************************************************)
(* Claims about the switch of the mode                                     *)
(***************************************************************************)
\* the place of the first `cmd` among the commands of the last pass, 0 when
\* it was not run
Pos(cmd) ==
    IF \E k \in 1..Len(m_cmds) : m_cmds[k] = cmd
    THEN CHOOSE k \in 1..Len(m_cmds) :
            m_cmds[k] = cmd /\ \A j \in 1..(k - 1) : m_cmds[j] # cmd
    ELSE 0

\* `first` was run, and before any `second`
RanBefore(first, second) ==
    Pos(first) # 0 /\ (Pos(second) # 0 => Pos(first) < Pos(second))

\* the last pass was a switch to a mode other than the one it read
Switched ==
    /\ m_pc = "menu"
    /\ m_choice.choice = "6"
    /\ m_choice.new_mode # None
    /\ m_choice.new_mode # Some(m_mode)

SocatRuns == \E p \in Ports : listener[p] = "socat"

\* C17: a pass of either forwards menu in which the operator selects the
\* mode that is already persisted runs no command, writes no mode, and leaves
\* the services and the relays of the host as they were.
C17_SameModeIsNoOp ==
    [][(m_choice'.choice = "6" /\ m_choice'.new_mode = Some(forward_mode)) =>
          /\ m_cmds' = <<>>
          /\ UNCHANGED <<forward_mode, haproxy, daemon, listener>>]_vars

\* the running mode "socat", with a relay up, was selected again in the
\* EasyTier menu and nothing was run
C17_Witness ==
    /\ m_pc = "menu"
    /\ m_menu = "easytier"
    /\ m_choice.choice = "6"
    /\ m_choice.new_mode = Some("socat")
    /\ m_mode = "socat" /\ forward_mode = "socat"
    /\ m_cmds = <<>>
    /\ SocatRuns /\ daemon

\* C18, as claimed, but for relays that survived the kill that was run: after
\* a switch to a different mode in either forwards menu, the driver of the
\* previous mode was stopped before the new mode was written and before the
\* daemon of the new mode was started, and no haproxy or relay of the
\* previous mode is left running.
C18_OldDriverStoppedFirst ==
    Switched =>
        /\ m_mode = "haproxy" =>
              /\ RanBefore("systemctl stop haproxy", "set_forward_mode")
              /\ RanBefore("systemctl stop haproxy",
                           "systemctl restart vortexl2-forward-daemon")
              /\ ~haproxy
        /\ m_mode = "socat" =>
              /\ RanBefore("stop_all_socat", "set_forward_mode")
              /\ RanBefore("stop_all_socat",
                           "systemctl restart vortexl2-forward-daemon")
              /\ SocatRuns => Pos("stop_all_socat") # 0

\* C19: after a switch to a mode other than "none" in which the operator did
\* not answer yes to the question whether to start forwarding, or was not
\* asked, the new mode is written and neither haproxy nor the forward daemon
\* was started by the pass.
C19_StartOnlyOnOptIn ==
    (Switched /\ m_choice.new_mode # Some("none") /\ m_choice.confirm # "yes")
        => /\ Some(forward_mode) = m_choice.new_mode
           /\ Pos("set_forward_mode") # 0
           /\ Pos("systemctl start haproxy") = 0
           /\ Pos("systemctl restart vortexl2-forward-daemon") = 0

(***************************************************************************)
(* The deletion of a tunnel                                                *)
(***************************************************************************)
Step(name, port) == [step |-> name, port |-> port]

\* the tunnel being deleted, as the handler goes: its configuration, the
\* listeners of the host, its service, and the steps made
Deleting(c, l, svc, log) ==
    [config |-> c, listener |-> l, service |-> svc, log |-> log]

\* `for port in list(config.forwarded_ports): forward.remove_forward(port)`:
\* what is returned is not looked at
RECURSIVE ClearForwards(_, _)
ClearForwards(todo, st) ==
    IF todo = <<>> THEN {st}
    ELSE UNION {ClearForwards(Tail(todo),
                    Deleting(r.config, r.listener, st.service,
                        Append(st.log, Step("remove_forward", Head(todo))))) :
                   r \in remove_forward(TRUE, st.config, st.listener,
                                        Head(todo))}

\* full_teardown: the service is stopped and disabled, its unit file removed
full_teardown(st) ==
    [st EXCEPT !.service = FALSE,
               !.log = Append(@, Step("full_teardown", 0))]

\* EasyTierConfig.delete, and ConfigManager.delete_tunnel: the file goes
delete(st) ==
    [st EXCEPT !.config = Config(@.ports, None),
               !.log = Append(@, Step("delete", 0))]

\* EasyTierConfigManager.delete_tunnel
delete_tunnel(st) ==
    IF st.config.file # None THEN delete(full_teardown(st)) ELSE st

\* handle_delete_tunnel from `config = manager.get_tunnel(selected)` on
handle_delete_tunnel(st) ==
    {delete(full_teardown(cleared)) :
        cleared \in ClearForwards(st.config.ports, st)}

\* handle_easytier_delete_tunnel from `config = manager.get_tunnel(selected)`
\* on
handle_easytier_delete_tunnel(st) == delete_tunnel(full_teardown(st))

\* a tunnel with its file, loaded by get_tunnel, on a host with socat
DelInit ==
    /\ d_pc = "menu"
    /\ service \in BOOLEAN
    /\ d_type = "none" /\ d_pre = <<>> /\ d_log = <<>>
    /\ fwd_pc = "off"
    /\ forwarded_ports \in DistinctSeqs(Ports)
    /\ remote_forward_ip = Some("10.0.0.2")
    /\ auto_save = TRUE
    /\ tunnel_file = Some(forwarded_ports)
    /\ socat_installed = TRUE
    /\ netstat \in BOOLEAN
    /\ listener \in [Ports -> {"none", "socat", "other"}]
    /\ f_op = NoCall /\ f_pre = <<>> /\ f_ret = NoCallRet /\ f_created = {}
    /\ f_cmds = <<>>
    /\ DnsOff /\ BulkOff /\ MenuOff /\ ShellOff

\* the tunnel as a deletion handler starts
TunnelNow ==
    Deleting(Config(forwarded_ports, tunnel_file), listener, service, <<>>)

\* a deletion handler ran to its end and left `st`
Deleted(type, st) ==
    /\ d_pc = "menu"
    /\ d_pc' = "deleted"
    /\ d_type' = type
    /\ d_pre' = forwarded_ports
    /\ d_log' = st.log
    /\ forwarded_ports' = st.config.ports
    /\ tunnel_file' = st.config.file
    /\ listener' = st.listener
    /\ service' = st.service
    /\ UNCHANGED <<dnsVars, bulkVars, menuVars, shellVars, fwd_pc,
                   remote_forward_ip,
                   auto_save, socat_installed, netstat, fwdCalls>>

\* handle_delete_tunnel, confirmed
DeleteTunnel ==
    \E st \in handle_delete_tunnel(TunnelNow) : Deleted("l2tp", st)

\* handle_easytier_delete_tunnel, confirmed
EasyTierDeleteTunnel ==
    /\ tunnel_file # None
    /\ Deleted("easytier", handle_easytier_delete_tunnel(TunnelNow))

\* either handler, `if not ui.confirm(...): return`
DeleteDeclined ==
    /\ d_pc = "menu"
    /\ d_pc' = "kept"
    /\ \E type \in {"l2tp", "easytier"} : d_type' = type
    /\ d_pre' = forwarded_ports
    /\ UNCHANGED <<dnsVars, bulkVars, menuVars, shellVars, fwdVars, service,
                   d_log>>

DelNext == DeleteTunnel \/ EasyTierDeleteTunnel \/ DeleteDeclined

SpecDel == DelInit /\ [][DelNext]_vars

(***************************************************************************)
(* Claims about the deletion of a tunnel                                   *)
(***************************************************************************)
\* the place of the first `step` in the steps of the deletion, 0 when it was
\* not made
StepAt(step) ==
    IF \E k \in 1..Len(d_log) : d_log[k] = step
    THEN CHOOSE k \in 1..Len(d_log) :
            d_log[k] = step /\ \A j \in 1..(k - 1) : d_log[j] # step
    ELSE 0

\* C20, as claimed, but for relays that survived a removal that was made:
\* when a deletion handler of either tunnel type has run, it tore the tunnel
\* down before it removed the tunnel's file, the file is gone and the
\* service is down, and a relay still runs on a port of the tunnel only if
\* the removal of that forward was made before the file was removed.
C20_TeardownBeforeDelete ==
    d_pc = "deleted" =>
        /\ tunnel_file = None /\ ~service
        /\ StepAt(Step("full_teardown", 0)) # 0
        /\ StepAt(Step("full_teardown", 0)) < StepAt(Step("delete", 0))
        /\ \A k \in 1..Len(d_pre) :
              listener[d_pre[k]] = "socat" =>
                  /\ StepAt(Step("remove_forward", d_pre[k])) # 0
                  /\ StepAt(Step("remove_forward", d_pre[k]))
                        < StepAt(Step("delete", 0))

(***************************************************************************)
(* The command `apply`                                                     *)
(***************************************************************************)
\* most tunnels get_all_tunnels returns
MaxTunnels == 3

\* what the setup of one tunnel can come to: EasyTierManager.start_tunnel
\* finds no binary, cannot write the service file, `systemctl start` fails,
\* or the tunnel starts; TunnelManager.full_setup fails or succeeds
SetupOutcomes == {"no binary", "no service file", "start failed", "started"}

\* a tunnel of the host: its peer address, and what its setup will do
ApplyTunnel(peer_ip, setup) == [peer_ip |-> peer_ip, setup |-> setup]

\* EasyTierConfig.is_configured
is_configured(tunnel) == tunnel.peer_ip # None

\* EasyTierManager.start_tunnel: [success, msg]
start_tunnel(tunnel) ==
    IF tunnel.setup = "no binary"
    THEN [success |-> FALSE, msg |-> "EasyTier binary not found"]
    ELSE IF ~is_configured(tunnel)
    THEN [success |-> FALSE, msg |-> "Tunnel not fully configured"]
    ELSE IF tunnel.setup = "no service file"
    THEN [success |-> FALSE, msg |-> "Failed to create service"]
    ELSE IF tunnel.setup = "start failed"
    THEN [success |-> FALSE, msg |-> "Failed to start tunnel"]
    ELSE [success |-> TRUE, msg |-> "EasyTier tunnel started"]

\* TunnelManager.full_setup: [success, msg]
full_setup(tunnel) ==
    IF tunnel.setup = "started"
    THEN [success |-> TRUE, msg |-> "tunnel set up"]
    ELSE [success |-> FALSE, msg |-> "setup failed"]

\* the locals of cmd_apply as its loop starts
ApplyLoop0 == [errors |-> 0, log |-> <<>>]

\* one pass of the loop `for config in tunnels`
ApplyOne(mode, ts, k, st) ==
    IF ~is_configured(ts[k]) THEN st
    ELSE LET r == IF mode = "easytier" THEN start_tunnel(ts[k])
                  ELSE full_setup(ts[k])
         IN  [errors |-> IF r.success THEN st.errors ELSE st.errors + 1,
              log |-> Append(st.log, [tunnel |-> k, success |-> r.success])]

\* the loop that ends at the first tunnel that failed
RECURSIVE ApplyLoop_StopsAtFailure(_, _, _, _)
ApplyLoop_StopsAtFailure(mode, ts, k, st) ==
    IF k > Len(ts) \/ st.errors > 0 THEN st
    ELSE ApplyLoop_StopsAtFailure(mode, ts, k + 1, ApplyOne(mode, ts, k, st))

\* `for config in tunnels`, from tunnel k on
RECURSIVE ApplyLoop(_, _, _, _)
ApplyLoop(mode, ts, k, st) ==
    IF k > Len(ts) THEN st
    ELSE ApplyLoop(mode, ts, k + 1, ApplyOne(mode, ts, k, st))

\* cmd_apply, with cmd_apply_easytier: the locals as it returns, and the
\* status
cmd_apply(mode, ts) ==
    IF ts = <<>> THEN [st |-> ApplyLoop0, status |-> 0]
    ELSE LET st == ApplyLoop(mode, ts, 1, ApplyLoop0)
         IN  [st |-> st, status |-> IF st.errors > 0 THEN 1 ELSE 0]

CmdApplyInit ==
    /\ ap_pc = "call"
    /\ ap_mode \in {"l2tpv3", "easytier"}
    /\ ap_tunnels \in UNION {[1..n -> {ApplyTunnel(peer, setup) :
                                          peer \in {None, Some("10.0.0.2")},
                                          setup \in SetupOutcomes}] :
                                n \in 0..MaxTunnels}
    /\ ap_log = <<>> /\ ap_ret = 0
    /\ DnsOff /\ FwdOff /\ BulkOff /\ MenuOff /\ DelOff /\ WriteOff
    /\ MainOff
    /\ CreateOff
    /\ IntervalOff

\* `vortexl2 apply`
CmdApply ==
    /\ ap_pc = "call"
    /\ LET r == cmd_apply(ap_mode, ap_tunnels)
       IN  /\ ap_log' = r.st.log
           /\ ap_ret' = r.status
    /\ ap_pc' = "returned"
    /\ UNCHANGED <<notApply, ap_mode, ap_tunnels>>

CmdApplyNext == CmdApply

SpecApply == CmdApplyInit /\ [][CmdApplyNext]_vars

\* the tunnels of the host that are fully configured, in order
RECURSIVE ConfiguredFrom(_)
ConfiguredFrom(k) ==
    IF k > Len(ap_tunnels) THEN <<>>
    ELSE IF is_configured(ap_tunnels[k]) THEN <<k>> \o ConfiguredFrom(k + 1)
    ELSE ConfiguredFrom(k + 1)

\* C21: when `apply` has returned, it set up every fully configured tunnel
\* once, in order, whatever happened to the tunnels before it, and no tunnel
\* that is not fully configured; its status is 1 when some setup failed and
\* 0 when none did, and 0 with no tunnels.
C21_ApplyTriesEveryTunnel ==
    ap_pc = "returned" =>
        /\ [k \in 1..Len(ap_log) |-> ap_log[k].tunnel] = ConfiguredFrom(1)
        /\ ap_ret \in {0, 1}
        /\ ap_ret # 0 <=> \E k \in 1..Len(ap_log) : ~ap_log[k].success
        /\ ap_tunnels = <<>> => ap_ret = 0

\* the first tunnel failed, the second was skipped as not configured, the
\* third was set up all the same, and the status is 1
C21_Witness ==
    /\ ap_pc = "returned"
    /\ Len(ap_tunnels) = 3
    /\ ~is_configured(ap_tunnels[2])
    /\ ap_log = <<[tunnel |-> 1, success |-> FALSE],
                  [tunnel |-> 3, success |-> TRUE]>>
    /\ ap_ret = 1

(***************************************************************************)
(* A write of a configuration file, and the operator's interrupt           *)
(***************************************************************************)
\* yaml.dump of a mapping: one line per key, the keys in order
Line(key, value) == <<key, value>>

\* the DNS document as yaml.dump writes it
DnsLines(config) ==
    <<Line("check_interval_hours", config.check_interval_hours),
      Line("current_dns", config.current_dns),
      Line("current_dns_name", config.current_dns_name),
      Line("last_check", config.last_check)>>

\* the document of a tunnel as yaml.dump writes it
TunnelLines(ports, peer_ip) ==
    <<Line("forwarded_ports", ports), Line("peer_ip", peer_ip),
      Line("tunnel_type", "easytier")>>

\* what the file holds before a write, and what the writer is to write
WriteCases ==
    {[op |-> "save_dns_config", old |-> old,
      new |-> DnsLines(save_dns_config(
                 IF old = None THEN NoFile ELSE Doc(EarlierDoc),
                 ip, "Cloudflare", 1).doc)] :
        old \in {None, Some(DnsLines(EarlierDoc))},
        ip \in {"1.1.1.1", "1.0.0.1"}}
    \cup
    {[op |-> "set_check_interval", old |-> old,
      new |-> DnsLines(Put(IF old = None THEN DefaultConfig ELSE EarlierDoc,
                           "check_interval_hours", hours))] :
        old \in {None, Some(DnsLines(EarlierDoc))},
        hours \in {1, 12}}
    \cup
    {[op |-> "save", old |-> old,
      new |-> TunnelLines(ports, Some("10.0.0.2"))] :
        old \in {None, Some(TunnelLines(<<>>, Some("10.0.0.2")))},
        ports \in {<<1>>, <<1, 2>>}}

WriteInit ==
    /\ w_pc = "called"
    /\ \E c \in WriteCases :
          /\ w_op = c.op /\ w_old = c.old /\ w_file = c.old /\ w_new = c.new
    /\ w_buf = <<>>
    /\ DnsOff /\ FwdOff /\ BulkOff /\ MenuOff /\ DelOff /\ CmdApplyOff
    /\ MainOff
    /\ CreateOff
    /\ IntervalOff

\* open(path, 'w'): the file is there and empty
WriteOpen ==
    /\ w_pc = "called"
    /\ w_pc' = "opened"
    /\ w_file' = Some(<<>>)
    /\ UNCHANGED <<notWrite, w_op, w_old, w_new, w_buf>>

\* yaml.dump(config, f): the next line goes to the open file
WriteDump ==
    /\ w_pc \in {"opened", "dumping"}
    /\ Len(w_buf) < Len(w_new)
    /\ w_pc' = "dumping"
    /\ w_buf' = Append(w_buf, w_new[Len(w_buf) + 1])
    /\ UNCHANGED <<notWrite, w_op, w_file, w_old, w_new>>

\* the end of the `with` block: what was written is in the file
WriteClose ==
    /\ w_pc \in {"opened", "dumping"}
    /\ Len(w_buf) = Len(w_new)
    /\ w_pc' = "closed"
    /\ w_file' = Some(w_buf)
    /\ UNCHANGED <<notWrite, w_op, w_old, w_new, w_buf>>

\* what follows the write (os.chmod, update_dns_cron), and the return
WriteReturn ==
    /\ w_pc = "closed"
    /\ w_pc' = "returned"
    /\ UNCHANGED <<notWrite, w_op, w_file, w_old, w_new, w_buf>>

\* signal_handler: SIGINT at any point of the writer raises SystemExit
\* there; a file that is open is closed by its `with` block on the way out
signal_handler ==
    /\ w_pc \in {"called", "opened", "dumping", "closed"}
    /\ w_pc' = "interrupted"
    /\ w_file' = IF w_pc \in {"opened", "dumping"} THEN Some(w_buf)
                 ELSE w_file
    /\ UNCHANGED <<notWrite, w_op, w_old, w_new, w_buf>>

WriteNext ==
    \/ WriteOpen
    \/ WriteDump
    \/ WriteClose
    \/ WriteReturn
    \/ signal_handler

SpecWrite == WriteInit /\ [][WriteNext]_vars

\* C22, as claimed: when the operator's interrupt has ended a writer of a
\* configuration file, the file is as it was before the writer was called,
\* or holds all the lines the writer was to write.
C22_InterruptLeavesWholeFile ==
    w_pc = "interrupted" => (w_file = w_old \/ w_file = Some(w_new))

(***************************************************************************)
(* The main menu loop                                                      *)
(***************************************************************************)
\* most handlers that raise in one session
MaxRaised == 2

\* the choices each loop sends to a handler
HandlerChoices(menu) ==
    IF menu = "easytier" THEN {"1", "2", "3", "4", "5", "6", "7", "8", "9"}
    ELSE {"1", "2", "3", "4", "5", "6"}

\* what the operator can enter at the menu
MainChoices == {"0", "1", "2", "3", "4", "5", "6", "7", "8", "9", "x"}

\* how a handler can end: it returns, having shown its own success or
\* failure, or it raises
HandlerOutcomes == {"returned", "failed", "KeyboardInterrupt", "Exception"}

\* the loop that catches KeyboardInterrupt alone
LoopCatches_InterruptOnly(outcome) == outcome = "KeyboardInterrupt"

\* `except KeyboardInterrupt: ... except Exception as e: ...`
LoopCatches(outcome) == outcome \in {"KeyboardInterrupt", "Exception"}

MainInit ==
    /\ mm_pc = "start"
    /\ mm_menu \in {"l2tpv3", "easytier"}
    /\ mm_choice = "none" /\ mm_outcome = "none"
    /\ mm_raised = 0 /\ mm_exit = "none"
    /\ DnsOff /\ FwdOff /\ BulkOff /\ MenuOff /\ DelOff /\ CmdApplyOff
    /\ WriteOff
    /\ CreateOff
    /\ IntervalOff

\* main_menu: check_root, then the loop of the tunnel mode
CheckRoot ==
    /\ mm_pc = "start"
    /\ \E root \in BOOLEAN :
          IF root THEN mm_pc' = "menu" /\ mm_exit' = mm_exit
          ELSE mm_pc' = "exited" /\ mm_exit' = "not root"
    /\ UNCHANGED <<notMain, mm_menu, mm_choice, mm_outcome, mm_raised>>

\* one read of the menu: "0" leaves the loop, a choice of the menu goes to
\* its handler, anything else to the warning "Invalid option"
MainChoose ==
    /\ mm_pc = "menu"
    /\ \E choice \in MainChoices :
          /\ mm_choice' = choice
          /\ IF choice = "0"
             THEN mm_pc' = "exited" /\ mm_exit' = "choice 0"
             ELSE /\ mm_pc' = IF choice \in HandlerChoices(mm_menu)
                              THEN "handler" ELSE "panel"
                  /\ mm_exit' = mm_exit
    /\ mm_outcome' = "none"
    /\ UNCHANGED <<notMain, mm_menu, mm_raised>>

\* the handler ends: on a return the loop goes on; what it raises is caught
\* by the loop, which shows the error of an Exception, or leaves the loop
HandlerEnds ==
    /\ mm_pc = "handler"
    /\ \E outcome \in HandlerOutcomes :
          /\ outcome \in {"KeyboardInterrupt", "Exception"} =>
                mm_raised < MaxRaised
          /\ mm_outcome' = outcome
          /\ mm_raised' = IF outcome \in {"KeyboardInterrupt", "Exception"}
                          THEN mm_raised + 1 ELSE mm_raised
          /\ IF outcome \in {"returned", "failed"}
             THEN mm_pc' = "menu" /\ mm_exit' = mm_exit
             ELSE IF LoopCatches(outcome)
             THEN /\ mm_pc' = IF outcome = "Exception" THEN "panel" ELSE "menu"
                  /\ mm_exit' = mm_exit
             ELSE mm_pc' = "exited" /\ mm_exit' = "uncaught"
    /\ UNCHANGED <<notMain, mm_menu, mm_choice>>

\* ui.wait_for_enter() after the warning or the error
PanelDone ==
    /\ mm_pc = "panel"
    /\ mm_pc' = "menu"
    /\ UNCHANGED <<notMain, mm_menu, mm_choice, mm_outcome, mm_raised,
                   mm_exit>>

\* signal_handler: the operator's Ctrl+C ends the process with sys.exit(0)
MainInterrupt ==
    /\ mm_pc \in {"menu", "handler", "panel"}
    /\ mm_pc' = "exited"
    /\ mm_exit' = "interrupt"
    /\ UNCHANGED <<notMain, mm_menu, mm_choice, mm_outcome, mm_raised>>

MainNext ==
    \/ CheckRoot
    \/ MainChoose
    \/ HandlerEnds
    \/ PanelDone
    \/ MainInterrupt

SpecMain == MainInit /\ [][MainNext]_vars

\* C24: past the privilege check, a step in which a handler of either main
\* menu loop ends, returning or raising, leads back to the menu, through the
\* error panel when it raised an Exception; the process ends only by the
\* operator's choice "0" at the menu or by the operator's interrupt.
C24_FailureReturnsToMenu ==
    [][/\ (mm_pc = "handler" /\ mm_outcome' # "none") =>
              /\ mm_pc' \in {"menu", "panel"}
              /\ mm_pc' = "panel" <=> mm_outcome' = "Exception"
       /\ (mm_pc = "panel" /\ mm_exit' # "interrupt") => mm_pc' = "menu"
       /\ (mm_pc # "start" /\ mm_pc' = "exited") =>
              \/ mm_exit' = "interrupt"
              \/ mm_exit' = "choice 0" /\ mm_pc = "menu" /\ mm_choice' = "0"
      ]_vars

\* a handler raised an Exception, and after its panel a second handler was
\* entered from the menu
C24_Witness ==
    /\ mm_pc = "handler"
    /\ mm_raised >= 1
    /\ mm_menu = "easytier"
    /\ mm_choice = "9"

(***************************************************************************)
(* Claims about the other choices of the forwards menus                    *)
(***************************************************************************)
\* the last pass added or removed a forward: the driver was called
Realized ==
    /\ m_pc = "menu"
    /\ m_choice.choice \in {"1", "2"}
    /\ m_cmds # <<>>

\* the driver classes whose method the last pass called
DriversCalled ==
    {"HAProxyManager" :
        k \in {j \in 1..Len(m_cmds) :
                  m_cmds[j] \in {"HAProxyManager.add_multiple_forwards",
                                 "HAProxyManager.remove_multiple_forwards"}}}
    \cup
    {"SocatManager" :
        k \in {j \in 1..Len(m_cmds) :
                  m_cmds[j] \in {"SocatManager.add_multiple_forwards",
                                 "SocatManager.remove_multiple_forwards"}}}

\* C23: a forward added or removed from a forwards menu is handed to the
\* driver of the mode the pass read, SocatManager in mode "socat" and
\* HAProxyManager in mode "haproxy", and nothing is added in mode "none".
C23_DriverMatchesMode ==
    Realized =>
        /\ m_mode = "socat" => DriversCalled = {"SocatManager"}
        /\ m_mode = "haproxy" => DriversCalled = {"HAProxyManager"}
        /\ m_mode = "none" => m_choice.choice # "1"

\* C28: a pass of either forwards menu that read the mode "none" and was
\* not a switch of the mode started neither haproxy nor the forward daemon.
C28_DisabledModeStartsNothing ==
    (m_pc = "menu" /\ m_mode = "none" /\ m_choice.choice \notin {"none", "6"})
        => /\ Pos("systemctl start haproxy") = 0
           /\ Pos("systemctl restart vortexl2-forward-daemon") = 0

(***************************************************************************)
(* Claims about what create_forward launches and records                   *)
(***************************************************************************)
\* the step is a call of create_forward on `port`, with or without a
\* configuration object
CreateCall(port) ==
    \E has_config \in BOOLEAN : f_op' = Call("create_forward", port, has_config)

\* the commands of a start_forward that launched socat and then looked at
\* the listeners again
LaunchedAndVerified == <<"which socat", "netstat", "socat", "netstat">>

\* C25: a call of create_forward changes the tunnel's list only when it
\* returns success, and it returns success only after it launched socat and
\* then found a listener on the port: the port, not in the list before, is
\* then the last of the list and a socat listens on it; a call that returns
\* failure leaves the list and the tunnel's file as they were.
C25_ConfiguredIffLaunchedAndLive ==
    [][\A port \in Ports :
          CreateCall(port) =>
              /\ f_ret'.success =>
                    /\ f_cmds' = LaunchedAndVerified
                    /\ port \notin Range(forwarded_ports)
                    /\ forwarded_ports' = Append(forwarded_ports, port)
                    /\ listener'[port] = "socat"
              /\ ~f_ret'.success => UNCHANGED <<forwarded_ports, tunnel_file>>
              /\ f_cmds' = LaunchedAndVerified /\ listener'[port] # "none"
                    /\ netstat => f_ret'.success]_vars

\* create_forward launched socat, which went away before the port was looked
\* at again: the call failed and the list, not empty, was left as it was
C25_Witness ==
    /\ f_op.name = "create_forward" /\ f_op.has_config
    /\ f_ret = [success |-> FALSE, msg |-> "socat did not start"]
    /\ f_cmds = LaunchedAndVerified
    /\ forwarded_ports = f_pre /\ forwarded_ports # <<>>
    /\ f_op.port \notin Range(forwarded_ports)

\* C27, as claimed: a call of create_forward that launches socat on a port
\* finds no listener on that port as it starts.
C27_NoLaunchOnBoundPort ==
    [][\A port \in Ports :
          (CreateCall(port) /\ \E k \in 1..Len(f_cmds') : f_cmds'[k] = "socat")
              => listener[port] = "none"]_vars

(***************************************************************************)
(* The creation of an EasyTier tunnel                                      *)
(***************************************************************************)
\* the names the operator enters
TunnelNames == {"tun-a", "tun-b", "tun-c"}

\* EasyTierConfigManager.tunnel_exists
tunnel_exists(files, name) == name \in files

\* EasyTierConfigManager.create_tunnel: a config object that is not saved
\* yet
create_tunnel(name) == [name |-> name, peer_ip |-> None, auto_save |-> FALSE]

\* _save that writes whatever _auto_save is
save_Always(config, files) == files \cup {config.name}

\* EasyTierConfig._save: the files after it
save_(config, files) ==
    IF ~config.auto_save THEN files ELSE files \cup {config.name}

\* the setter of peer_ip: the object and the files after it
set_peer_ip(config, files, value) ==
    LET set == [config EXCEPT !.peer_ip = value]
    IN  [config |-> set, files |-> save_(set, files)]

\* EasyTierConfig.save: the object and the files after it
save(config, files) ==
    [config |-> [config EXCEPT !.auto_save = TRUE],
     files |-> files \cup {config.name}]

CreateInit ==
    /\ c_pc = "idle"
    /\ c_files \in SUBSET TunnelNames
    /\ c_name = "none" /\ c_config = None /\ c_result = "none"
    /\ c_failed = {}
    /\ DnsOff /\ FwdOff /\ BulkOff /\ MenuOff /\ DelOff /\ CmdApplyOff
    /\ WriteOff /\ MainOff
    /\ IntervalOff

\* the handler returns before a config object is made: no side or no name
\* entered, or the name has a document
CreateRefused ==
    /\ c_pc = "idle"
    /\ \E entered \in {"no side", "no name"} \cup TunnelNames :
          /\ entered \in TunnelNames => tunnel_exists(c_files, entered)
          /\ c_name' = IF entered \in TunnelNames THEN entered ELSE "none"
          /\ c_result' = IF entered \in TunnelNames THEN "exists" ELSE entered
    /\ UNCHANGED <<notCreate, c_pc, c_files, c_config, c_failed>>

\* up to `config = manager.create_tunnel(name)`
CreateTunnel ==
    /\ c_pc = "idle"
    /\ \E name \in TunnelNames :
          /\ ~tunnel_exists(c_files, name)
          /\ c_name' = name
          /\ c_config' = create_tunnel(name)
    /\ c_pc' = "configuring"
    /\ c_result' = "none"
    /\ UNCHANGED <<notCreate, c_files, c_failed>>

\* prompt_easytier_config assigns a field of the object
SetField ==
    /\ c_pc = "configuring"
    /\ c_config.peer_ip = None
    /\ LET r == set_peer_ip(c_config, c_files, Some("10.0.0.2"))
       IN  c_config' = r.config /\ c_files' = r.files
    /\ UNCHANGED <<notCreate, c_pc, c_name, c_result, c_failed>>

\* prompt_easytier_config returns False
CreateCancelled ==
    /\ c_pc = "configuring"
    /\ c_pc' = "idle"
    /\ c_config' = None
    /\ c_result' = "cancelled"
    /\ c_failed' = c_failed \cup {c_name}
    /\ UNCHANGED <<notCreate, c_files, c_name>>

\* start_tunnel, and config.save() when it reports success
CreateStart ==
    /\ c_pc = "configuring"
    /\ \E setup \in SetupOutcomes :
          LET started == start_tunnel(ApplyTunnel(c_config.peer_ip, setup))
          IN  IF started.success
              THEN /\ c_files' = save(c_config, c_files).files
                   /\ c_result' = "created"
                   /\ c_failed' = c_failed
              ELSE /\ c_files' = c_files
                   /\ c_result' = "failed"
                   /\ c_failed' = c_failed \cup {c_name}
    /\ c_pc' = "idle"
    /\ c_config' = None
    /\ UNCHANGED <<notCreate, c_name>>

CreateNext ==
    \/ CreateRefused
    \/ CreateTunnel
    \/ SetField
    \/ CreateCancelled
    \/ CreateStart

SpecCreate == CreateInit /\ [][CreateNext]_vars

\* C26: in the creation of an EasyTier tunnel the documents on disk change
\* in one step only, the one in which start_tunnel reported success, and
\* there the document of the new name is added; the assignment of a field
\* writes nothing; a creation that ends cancelled or failed leaves no
\* document of its name, and ends with the handler ready for the same name.
C26_SavedOnlyAfterStart ==
    [][/\ c_files' # c_files =>
              /\ c_pc = "configuring" /\ c_result' = "created"
              /\ c_files' = c_files \cup {c_name}
       /\ c_config' # c_config /\ c_pc' = "configuring" =>
              c_files' = c_files /\ ~tunnel_exists(c_files', c_name')
       /\ c_result' \in {"cancelled", "failed"} /\ c_pc = "configuring" =>
              /\ ~tunnel_exists(c_files', c_name)
              /\ c_pc' = "idle"]_vars

\* a name whose creation failed before was entered again and its tunnel
\* created
C26_Witness ==
    /\ c_pc = "idle"
    /\ c_result = "created"
    /\ c_name \in c_failed
    /\ tunnel_exists(c_files, c_name)

(***************************************************************************)
(* The DNS check interval and the auto-check cron entry                    *)
(***************************************************************************)
\* the hours prompt_check_interval offers
Hours == {1, 6, 12}

\* config.get(key, default)
Lookup(config, key, default) ==
    IF key \in DOMAIN config THEN config[key] ELSE default

\* get_check_interval
get_check_interval(file) ==
    Lookup(get_dns_config(file), "check_interval_hours",
           DEFAULT_CHECK_INTERVAL)

\* the document written from the defaults, not from the file
set_check_interval_Fresh(file, hours) ==
    Doc(Put(DefaultConfig, "check_interval_hours", hours))

\* the document set_check_interval(hours) writes
set_check_interval(file, hours) ==
    Doc(Put(get_dns_config(file), "check_interval_hours", hours))

NoCron == [file |-> FALSE, hours |-> 0]

\* how the write of the cron file can go: written, open() fails and the
\* file is as it was, or a write fails after the open
CronWrites == {"written", "not opened", "not written"}

\* update_dns_cron(hours): the cron file after it, and [success]
update_dns_cron(file, hours, how) ==
    IF how = "written"
    THEN [cron |-> [file |-> TRUE, hours |-> hours], success |-> TRUE]
    ELSE IF how = "not opened" THEN [cron |-> file, success |-> FALSE]
    ELSE [cron |-> [file |-> TRUE, hours |-> 0], success |-> FALSE]

\* remove_dns_cron: the cron file after it, and [success]
remove_dns_cron(file, unlinked) ==
    IF ~file.file THEN [cron |-> file, success |-> TRUE]
    ELSE IF unlinked THEN [cron |-> NoCron, success |-> TRUE]
    ELSE [cron |-> file, success |-> FALSE]

IntervalOp(name, hours, success) ==
    [name |-> name, hours |-> hours, success |-> success]

\* what the steps on the DNS document leave alone
notDoc == <<normVars, probeVars, s_pc, scans, scanLocals, dns_writes,
            at_start, commits, fwdVars, bulkVars, menuVars, delVars,
            applyVars, writeVars, mainVars, createVars>>

IntervalInit ==
    /\ i_pc = "menu"
    /\ cron = NoCron
    /\ i_op = IntervalOp("none", 0, FALSE)
    /\ dns_config \in {NoFile, Corrupt, Doc(<<>>), Doc(EarlierDoc)}
    /\ s_pc = "off" /\ scans = 0 /\ ScanLocals0 /\ dns_writes = 0
    /\ at_start = [config |-> NoFile, writes |-> 0]
    /\ commits = [n |-> 0, last |-> None]
    /\ NormOff /\ ProbeOff
    /\ FwdOff /\ BulkOff /\ MenuOff /\ DelOff /\ CmdApplyOff /\ WriteOff
    /\ MainOff /\ CreateOff

\* handle_dns_menu, choice "3": set_check_interval(hours)
SetCheckInterval ==
    /\ i_pc = "menu"
    /\ \E hours \in Hours, how \in CronWrites :
          LET r == update_dns_cron(cron, hours, how)
          IN  /\ dns_config' = set_check_interval(dns_config, hours)
              /\ cron' = r.cron
              /\ i_op' = IntervalOp("set_check_interval", hours, r.success)
    /\ UNCHANGED <<notDoc, i_pc>>

\* handle_dns_menu, choice "4": update_dns_cron with the hours of the file
EnableAutoCheck ==
    /\ i_pc = "menu"
    /\ \E how \in CronWrites :
          LET hours == Lookup(get_dns_config(dns_config),
                              "check_interval_hours", 4)
              r == update_dns_cron(cron, hours, how)
          IN  /\ cron' = r.cron
              /\ i_op' = IntervalOp("update_dns_cron", hours, r.success)
    /\ UNCHANGED <<notDoc, i_pc, dns_config>>

\* handle_dns_menu, choice "5": remove_dns_cron
DisableAutoCheck ==
    /\ i_pc = "menu"
    /\ \E unlinked \in BOOLEAN :
          LET r == remove_dns_cron(cron, unlinked)
          IN  /\ cron' = r.cron
              /\ i_op' = IntervalOp("remove_dns_cron", 0, r.success)
    /\ UNCHANGED <<notDoc, i_pc, dns_config>>

\* a scan that applied a server: save_dns_config(dns_ip, dns_name)
SaveDnsConfig ==
    /\ i_pc = "menu"
    /\ \E k \in 1..2, now \in 1..2 :
          dns_config' = save_dns_config(dns_config, RAW_DNS_LIST[k][2],
                                        RAW_DNS_LIST[k][1], now)
    /\ i_op' = IntervalOp("save_dns_config", 0, TRUE)
    /\ UNCHANGED <<notDoc, i_pc, cron>>

IntervalNext ==
    \/ SetCheckInterval
    \/ EnableAutoCheck
    \/ DisableAutoCheck
    \/ SaveDnsConfig

SpecInterval == IntervalInit /\ [][IntervalNext]_vars

\* C29, as claimed: whenever the cron file holds the auto-check entry, the
\* hours of the entry are the check interval the DNS document holds.
C29_CronMatchesInterval ==
    (i_pc = "menu" /\ cron.hours # 0) =>
        cron.hours = get_check_interval(dns_config)

\* the three fields save_dns_config writes, as a reader of the file sees them
Chosen(file) ==
    [k \in {"current_dns", "current_dns_name", "last_check"} |->
        Lookup(get_dns_config(file), k, None)]

\* C30: a step of save_dns_config leaves the check interval of the document
\* as it was, and a step of set_check_interval sets the interval to its
\* argument and leaves the chosen address, the chosen name and the time of
\* the last check as they were.
C30_WritersKeepEachOthersFields ==
    [][/\ i_op'.name = "save_dns_config" =>
              /\ get_check_interval(dns_config')
                    = get_check_interval(dns_config)
              /\ Chosen(dns_config').current_dns # None
       /\ i_op'.name = "set_check_interval" =>
              /\ get_check_interval(dns_config') = i_op'.hours
              /\ Chosen(dns_config') = Chosen(dns_config)]_vars

\* a document that holds a chosen server and the interval 12 was given the
\* interval 1 and still holds the server; the interval is not the default
C30_Witness ==
    /\ i_op.name = "set_check_interval" /\ i_op.hours = 1
    /\ get_check_interval(dns_config) = 1
    /\ Chosen(dns_config).current_dns # None
    /\ Chosen(dns_config).current_dns # EarlierDoc.current_dns
====
